---- MODULE Spec2Model ----
(***************************************************************************)
(* Request execution pipeline of arcesso: input validation, dispatch with  *)
(* retry, success-body parsing and outcome routing to the callback slots.  *)
(*                                                                         *)
(*   src/src/methods.ts             executeHttpRequestWithCallbacks,       *)
(*                                  EnhancedResponse.json                  *)
(*   src/src/core.ts                executeHttpRequest / fetchWithRetry    *)
(*   src/unnamed/part_005           withRetry, shouldRetry (retry.ts)      *)
(*   src/src/callback-validator.ts  executeCallback                        *)
(*   src/src/errors.ts              the five error classes                 *)
(***************************************************************************)
EXTENDS Integers, Sequences, FiniteSets, TLC

\* Largest `attempts` value of a retry policy a call is given.
MaxAttempts == 2

\* Largest `attempts` value given to withRetry when it is run on its own.
MaxOpAttempts == 4

\* Longest username and longest password of the basic credentials explored.
MaxCredentialLen == 1

\* Largest number of entries of a query object.
MaxQueryLen == 2

\* Longest request URL given to prepareUrl, in characters.
MaxUrlLen == 2

\* Longest request URL given to resolveUrl, in pieces of text.
MaxPathLen == 3

\* Number of exchanges after which a run is cut off; no policy explored
\* allows that many.
MaxExchanges == 6

\* Largest attempt number a delay is calculated for.
MaxDelayAttempt == 4

\* Number of clock ticks a run with a clock may last.
MaxTicks == 6

(***************************************************************************)
(* Data                                                                    *)
(***************************************************************************)

\* The six callback slots of ArcessoRequestOptions.
Slots ==
  {"onSuccess", "onValidationError", "onHttpError", "onNetworkError",
   "onTimeout", "onError"}

\* A registered slot holds a plain handler or a {schema, handler} pair
\* (hasSchema, callback-validator.ts:8-12).
Shapes == {"plain", "schema"}

\* The callback options a call can carry: which slots are registered.
CallbackOptions == [Slots -> BOOLEAN]

\* Request bodies as the verb functions receive them.
Bodies == {"undefined", "null", "object"}

\* What a Standard Schema validate() call can hand back: a `value` key that
\* is absent, present but undefined, or defined; an `issues` array or none.
SchemaResults == [value : {"absent", "undefined", "defined"},
                  issues : {"absent", "present"}]

\* Status codes the fetch primitive answers with.
Statuses == {200, 404, 500}

\* retryOn sets of the retry policies explored.
RetryOnSets == {{500}, {404, 500}}

\* Retry policies; NoRetry stands for "no policy resolved".
RetryPolicies == [attempts : 0..MaxAttempts, retryOn : RetryOnSets]

NoRetry == [attempts |-> -1, retryOn |-> {}]

\* Policies handed to withRetry when it is run on its own.
OpPolicies == [attempts : 0..MaxOpAttempts, retryOn : RetryOnSets]

\* An optional number that was left out (`timeout?: number`).
Undefined == -1

\* Per-request timeout options: left out or a duration.
Timeouts == {Undefined, 50}

\* Header maps over the keys explored; each key is absent or carries a value
\* named after the source that supplied it.
HeaderKeys == {"Authorization", "Content-Type", "X-Trace"}

HeaderValues == {"absent", "global", "body", "auth", "custom"}

NoHeaders == [k \in HeaderKeys |-> "absent"]

\* The global configuration as created by `let globalConfig = {}`.
EmptyConfig ==
  [baseUrl |-> "", headers |-> NoHeaders, retry |-> NoRetry,
   timeout |-> Undefined]

\* A configuration with every field given.
FullConfig ==
  [baseUrl |-> "https://api",
   headers |-> [NoHeaders EXCEPT !["X-Trace"] = "global"],
   retry |-> [attempts |-> 1, retryOn |-> {404, 500}],
   timeout |-> 100]

\* Arguments of configure(): no field, one field, or every field given.
Configs ==
  {EmptyConfig, FullConfig,
   [EmptyConfig EXCEPT !.baseUrl = FullConfig.baseUrl],
   [EmptyConfig EXCEPT !.headers = FullConfig.headers],
   [EmptyConfig EXCEPT !.retry = FullConfig.retry],
   [EmptyConfig EXCEPT !.timeout = FullConfig.timeout]}

\* Request URLs: whether the string starts with 'http'.
Urls == [absolute : BOOLEAN]

\* The URL a call fetches: the base URL it was prefixed with, if any.
NoUrl == [base |-> "", absolute |-> FALSE]

\* Per-request options other than the callback slots and the schemas of
\* input and success. `form` is the type of the headers option: a plain
\* record or a Headers instance.
Options(t, r, es, h, form, auth) ==
  [timeout |-> t, retry |-> r, errorSchema |-> es, headers |-> h,
   form |-> form, auth |-> auth]

NoOptions == Options(Undefined, NoRetry, FALSE, NoHeaders, "record", FALSE)

\* The options a call is given when the global configuration is left alone.
RequestOptions ==
  [timeout : Timeouts, retry : RetryPolicies \cup {NoRetry},
   errorSchema : BOOLEAN, headers : {NoHeaders}, form : {"record"},
   auth : {FALSE}]

\* The options a call is given in the runs that also call configure(): the
\* timeout may be 0, the headers may name a key the global ones name.
ConfiguredOptions ==
  [timeout : Timeouts \cup {0},
   retry : {NoRetry, [attempts |-> MaxAttempts, retryOn |-> {500}]},
   errorSchema : {FALSE},
   headers : {NoHeaders, [NoHeaders EXCEPT !["X-Trace"] = "custom"]},
   form : {"record"}, auth : {FALSE}]

\* The callback options of those runs: no slot, or onSuccess alone.
ConfiguredCallbacks ==
  {[s \in Slots |-> b /\ s = "onSuccess"] : b \in BOOLEAN}

\* A helper function applied to an input, with what it returned.
Applied(fn, input, output) == [fn |-> fn, input |-> input, output |-> output]

NoApplication == Applied("none", <<>>, <<>>)

\* The time in ms, the time at which the running attempt called fetch, and
\* the time at which the signal given to that fetch fires, if it has one.
ClockAt(now, startedAt, deadline) ==
  [now |-> now, startedAt |-> startedAt, deadline |-> deadline]

NoClock == ClockAt(0, 0, Undefined)

\* The length of a clock tick in ms.
TickMs == 50

\* What executeHttpRequest is handed for fetch: URL, headers and body.
Request(url, headers, body) == [url |-> url, headers |-> headers, body |-> body]

NoRequest == Request(NoUrl, NoHeaders, "none")

\* Error objects. `site` and `n` identify the place and the exchange that
\* constructed the object, so that equal records are the same object.
Err(kind, site, n, status, data, timeout, cause, msg) ==
  [kind |-> kind, site |-> site, n |-> n, status |-> status, data |-> data,
   timeout |-> timeout, cause |-> cause, msg |-> msg]

NoErr == Err("none", "none", 0, 0, "none", 0, "none", "")

ValidationError(site, msg) ==
  Err("ValidationError", site, 0, 0, "none", 0, "none", msg)

NetworkError(n, cause) ==
  Err("NetworkError", "fetch", n, 0, "none", 0, cause, "Network error")

HttpError(n, status, data) ==
  Err("HttpError", "fetch", n, status, data, 0, "none", "HTTP")

TimeoutError(n, timeout) ==
  Err("TimeoutError", "fetch", n, 0, "none", timeout, "none",
      "Request timed out")

RetryExhaustedError(lastError) ==
  Err("RetryExhaustedError", "retry", lastError.n, 0, "none", 0,
      lastError.kind, "Request failed after attempts")

\* The five error classes of errors.ts.
ErrorKinds ==
  {"ValidationError", "NetworkError", "HttpError", "RetryExhaustedError",
   "TimeoutError"}

\* Values a call can resolve with or hand to a handler.
Val(tag, slot, err) == [tag |-> tag, slot |-> slot, err |-> err]

NoVal == Val("none", "-", NoErr)

\* Responses of the fetch primitive: status and whether the body is JSON.
Resp(status, json) == [status |-> status, json |-> json]

NoResp == Resp(0, FALSE)

Responses == [status : Statuses, json : BOOLEAN]

\* What one fetch() call does: reject with an error of some name, or
\* resolve with a response.
FetchBehaviours ==
  [rejects : {"TimeoutError", "AbortError", "TypeError"}, resp : {NoResp}]
  \cup [rejects : {"none"}, resp : Responses]

\* Result of an awaited operation: a returned value/response or a throw.
Res(ok, resp, value, err) ==
  [ok |-> ok, resp |-> resp, value |-> value, err |-> err]

NoRes == Res(FALSE, NoResp, NoVal, NoErr)

Returned(resp) == Res(TRUE, resp, NoVal, NoErr)

ReturnedValue(v) == Res(TRUE, NoResp, v, NoErr)

Threw(e) == Res(FALSE, NoResp, NoVal, e)

\* What a user handler does when invoked: return a defined value other
\* than null, return null, return undefined, or throw.
HandlerBehaviours == {"defined", "null", "undefined", "throws"}

\* What the latest exchange of the call was as the fetch primitive and the
\* error schema saw it: how fetch settled, and what became of the body of a
\* non-success response under the error schema.
Fetched(rejects, resp, answer) ==
  [rejects |-> rejects, resp |-> resp, answer |-> answer]

NoFetch == Fetched("notCalled", NoResp, "notValidated")

Pending == [type |-> "pending", value |-> NoVal, error |-> NoErr]

Resolved(v) == [type |-> "resolved", value |-> v, error |-> NoErr]

Rejected(e) == [type |-> "rejected", value |-> NoVal, error |-> e]

(***************************************************************************)
(* State                                                                   *)
(***************************************************************************)
VARIABLES
  globalConfig,  \* methods.ts:17
  configured,    \* the argument of the latest configure() call
  other,         \* the state of a second call while it is suspended
  pc,            \* position of the call in executeHttpRequestWithCallbacks
  callbacks,     \* options.onSuccess .. options.onError: registered or not
  body,          \* the body parameter of the call
  validatedBody, \* methods.ts:143
  inputIssues,   \* the input schema reported issues in this call
  options,       \* the options read at methods.ts:158-175
  request,       \* finalUrl, mergedHeaders and preparedBody of the call
  sent,          \* what the latest fetch() was called with
  retry,         \* core.ts:25, the resolved retry policy
  timeout,       \* core.ts:26
  errorSchema,   \* core.ts:27, whether an error schema was given
  rpc,           \* position inside executeHttpRequest / withRetry
  attempt,       \* part_005:66
  lastError,     \* part_005:64
  result,        \* what the dispatch hands back
  exchanges,     \* number of fetch() invocations of this call
  retryLog,      \* onRetry invocations: <<attempt, n of the error>>
  events,        \* what the dispatch did, in order: <<what, attempt>>
  raised,        \* the error as constructed at the latest point of failure
  fetched,       \* the latest exchange as fetch and the error schema saw it
  response,      \* methods.ts:168
  data,          \* methods.ts:178
  thrown,        \* the error a catch clause is handling
  invoked,       \* slot handlers invoked, with what each was and did
  outcome,       \* how the call settled
  applied,       \* a helper function applied on its own: input and output
  clock          \* the time, when the running attempt began, its deadline

vars ==
  <<globalConfig, configured, other, pc, callbacks, body, validatedBody,
    inputIssues, options, request, sent, retry, timeout, errorSchema,
    rpc, attempt, lastError, result, exchanges, retryLog, events, raised,
    fetched, response, data, thrown, invoked, outcome, applied, clock>>

\* Everything but the record of a helper applied on its own.
programVars ==
  <<globalConfig, configured, other, pc, callbacks, body, validatedBody,
    inputIssues, options, request, sent, retry, timeout, errorSchema,
    rpc, attempt, lastError, result, exchanges, retryLog, events, raised,
    fetched, response, data, thrown, invoked, outcome, clock>>

configVars == <<globalConfig, configured>>

\* What no step of the running call changes.
outside == <<globalConfig, configured, other, applied, clock>>

\* The same without the clock.
shared == <<globalConfig, configured, other, applied>>

callVars == <<callbacks, body, validatedBody, inputIssues>>

requestVars == <<options, request, sent>>

retryVars ==
  <<retry, timeout, errorSchema, rpc, attempt, lastError, result>>

routeVars == <<response, data, thrown, invoked, outcome>>

(***************************************************************************)
(* Pure functions                                                          *)
(***************************************************************************)

\* A number option used as a condition: undefined and 0 are falsy.
Truthy(n) == n > 0

\* core.ts:40-42: the deadline an exchange runs under, 0 for none.
Deadline(t) == IF Truthy(t) THEN t ELSE 0

\* methods.ts:36-41: the base URL the request URL is prefixed with.
ResolveUrl(cfg, url) ==
  IF cfg.baseUrl # "" /\ ~url.absolute
    THEN [base |-> cfg.baseUrl, absolute |-> url.absolute]
    ELSE [base |-> "", absolute |-> url.absolute]

\* The value prepareBody serialises, were it the caller's body.
BodyToPrepareOriginal(b, vb) == b

\* methods.ts:143-159: prepareBody is handed validatedBody, which is the body
\* unless input validation replaced it.
BodyToPrepare(b, vb) == vb

\* methods.ts:61-86: the payload handed to fetch and the headers it implies.
PrepareBody(b) ==
  IF b \in {"undefined", "null"}
    THEN [body |-> "empty", headers |-> NoHeaders]
  ELSE IF b = "string"
    THEN [body |-> "text", headers |-> NoHeaders]
    ELSE [body |-> IF b = "validated" THEN "jsonOfValidated"
                   ELSE "jsonOfBody",
          headers |-> [NoHeaders EXCEPT !["Content-Type"] = "body"]]

\* methods.ts:88-101, 160
PrepareAuthHeaders(auth) ==
  IF auth THEN [NoHeaders EXCEPT !["Authorization"] = "auth"] ELSE NoHeaders

\* { ...a, ...b } and Object.assign(a, b) on header records.
Spread(a, b) ==
  [k \in HeaderKeys |-> IF b[k] # "absent" THEN b[k] ELSE a[k]]

\* configure() that merges the new fields into the stored configuration.
ConfigureStoreMerging(old, config) ==
  [baseUrl |-> IF config.baseUrl # "" THEN config.baseUrl ELSE old.baseUrl,
   headers |-> Spread(old.headers, config.headers),
   retry |-> IF config.retry # NoRetry THEN config.retry ELSE old.retry,
   timeout |-> IF config.timeout # Undefined THEN config.timeout
               ELSE old.timeout]

\* methods.ts:33: the store after configure(config).
ConfigureStore(old, config) == config

\* ...options.headers: a Headers instance has no own enumerable properties.
OwnProperties(h, form) == IF form = "Headers" THEN NoHeaders ELSE h

\* methods.ts:43-59, called with the record built at methods.ts:161-165.
MergeHeaders(cfg, headers) == Spread(cfg.headers, headers)

\* mergeHeaders writing into globalConfig.headers itself instead of a copy.
StoreAfterMergeInPlace(cfg, headers) ==
  [cfg EXCEPT !.headers = Spread(cfg.headers, headers)]

\* methods.ts:46: `merged` is a copy, the stored configuration stays as is.
StoreAfterMerge(cfg, headers) == cfg

\* methods.ts:161-165: the argument of mergeHeaders.
PerCallHeaders(b, o) ==
  Spread(Spread(PrepareBody(b).headers, PrepareAuthHeaders(o.auth)),
         OwnProperties(o.headers, o.form))

\* methods.ts:158-165
MergedHeaders(cfg, b, o) == MergeHeaders(cfg, PerCallHeaders(b, o))

\* The timeout resolution with the global default tested first.
ResolveTimeoutGlobalFirst(o, cfg) ==
  IF Truthy(cfg.timeout) THEN cfg.timeout ELSE o.timeout

\* methods.ts:173: options.timeout || globalConfig.timeout
ResolveTimeout(o, cfg) ==
  IF Truthy(o.timeout) THEN o.timeout ELSE cfg.timeout

\* methods.ts:172: options.retry || globalConfig.retry
ResolveRetry(o, cfg) ==
  IF o.retry # NoRetry THEN o.retry ELSE cfg.retry

\* 'value' in result && result.value !== undefined && !result.issues
IsSuccess(r) == r.value = "defined" /\ r.issues = "absent"

\* 'issues' in result && result.issues
IsFailure(r) == r.issues = "present"

\* InputValidation without the `!result.issues` test of methods.ts:146.
InputValidationIgnoringIssues(r) ==
  IF r.value = "defined"
    THEN ReturnedValue(Val("inputValidated", "-", NoErr))
  ELSE IF IsFailure(r)
    THEN Threw(ValidationError("input", "Input validation failed"))
    ELSE Threw(ValidationError("input", "Unknown input validation error"))

\* methods.ts:144-156: the input gate.
InputValidation(r) ==
  IF IsSuccess(r) THEN ReturnedValue(Val("inputValidated", "-", NoErr))
  ELSE IF IsFailure(r)
    THEN Threw(ValidationError("input", "Input validation failed"))
    ELSE Threw(ValidationError("input", "Unknown input validation error"))

\* EnhancedResponse.json(schema): parse, then validate when a schema is given.
Json(resp, hasSchema, r, site) ==
  IF ~resp.json
    THEN Threw(Err("SyntaxError", site, 0, 0, "none", 0, "none",
                   "Unexpected token"))
  ELSE IF ~hasSchema THEN ReturnedValue(Val("parsed", "-", NoErr))
  ELSE IF IsSuccess(r) THEN ReturnedValue(Val("validated", "-", NoErr))
  ELSE IF IsFailure(r)
    THEN Threw(ValidationError(site, "Response validation failed"))
    ELSE Threw(ValidationError(site, "Unknown validation error"))

\* The test of core.ts:92 without its `error.name === 'TimeoutError'` half.
IsTimeoutRejectionAbortOnly(name, t) == name = "AbortError" /\ Truthy(t)

\* core.ts:92: the rejection is attributed to the timeout.
IsTimeoutRejection(name, t) ==
  name = "TimeoutError" \/ (name = "AbortError" /\ Truthy(t))

\* A signal created once, when the dispatch begins at time 0.
AbortSignalOfDispatch(t, now) == IF Truthy(t) THEN t ELSE Undefined

\* core.ts:40-42: AbortSignal.timeout(timeout), created at time `now`,
\* fires at now + timeout; no signal without a timeout.
AbortSignalTimeout(t, now) == IF Truthy(t) THEN now + t ELSE Undefined

\* core.ts:86-106: the catch clause of fetchWithRetry for a non-HttpError.
ClassifyFailure(name, t, n) ==
  IF IsTimeoutRejection(name, t)
    THEN TimeoutError(n, Deadline(t))
    ELSE NetworkError(n, name)

\* fetchWithRetry without the `!response.ok` test of core.ts:48.
FetchWithRetryAnyStatus(b, r, t, hasErrorSchema, n) ==
  IF b.rejects # "none" THEN Threw(ClassifyFailure(b.rejects, t, n))
  ELSE Returned(b.resp)

\* core.ts:30-107: one exchange. b is what fetch does, r what the error
\* schema answers, n the ordinal of the exchange.
FetchWithRetry(b, r, t, hasErrorSchema, n) ==
  IF b.rejects # "none" THEN Threw(ClassifyFailure(b.rejects, t, n))
  ELSE IF b.resp.status >= 200 /\ b.resp.status <= 299 THEN Returned(b.resp)
  ELSE IF ~hasErrorSchema THEN Threw(HttpError(n, b.resp.status, "none"))
  ELSE LET j == Json(b.resp, TRUE, r, "errorBody")
       IN  IF j.ok THEN Threw(HttpError(n, b.resp.status, "validated"))
           ELSE IF j.err.kind = "ValidationError"
             THEN Threw(HttpError(n, b.resp.status, "none"))
             ELSE Threw(ClassifyFailure(j.err.kind, t, n))

\* Everything one exchange can end in, over the behaviours of fetch and of
\* the error schema.
FetchOutcomes(t, hasErrorSchema, n) ==
  {FetchWithRetry(b, r, t, hasErrorSchema, n) :
     b \in FetchBehaviours, r \in SchemaResults}

\* core.ts:44-75 as observed from outside: whether the error schema was
\* run on the body of the response, and what it answered.
ErrorBodyAnswer(b, r, hasErrorSchema) ==
  IF b.rejects # "none" \/ ~hasErrorSchema THEN "notValidated"
  ELSE IF b.resp.status >= 200 /\ b.resp.status <= 299 THEN "notValidated"
  ELSE IF ~b.resp.json THEN "unparsable"
  ELSE IF IsSuccess(r) THEN "accepted"
  ELSE "refused"

\* shouldRetry without its HttpError branch.
ShouldRetryNetworkOnly(error, policy) == error.kind = "NetworkError"

\* shouldRetry that takes a TimeoutError for a transport failure.
ShouldRetryTimeouts(error, policy) ==
  IF error.kind = "HttpError" THEN error.status \in policy.retryOn
  ELSE error.kind \in {"NetworkError", "TimeoutError", "ValidationError"}

\* shouldRetry that retries an HttpError of any status.
ShouldRetryAnyStatus(error, policy) ==
  error.kind \in {"HttpError", "NetworkError"}

\* part_005:36-46
ShouldRetry(error, policy) ==
  IF error.kind = "HttpError" THEN error.status \in policy.retryOn
  ELSE error.kind = "NetworkError"

\* The test of part_005:72 without `attempt === options.attempts`.
GivesUpOnlyWhenIneligible(error, att, policy) == ~ShouldRetry(error, policy)

\* part_005:72: the error leaves the loop instead of being retried.
GivesUp(error, att, policy) ==
  att = policy.attempts \/ ~ShouldRetry(error, policy)

\* The record of an awaited operation settling in attempt n.
Settled(r, n) == IF r.ok THEN <<"returned", n>> ELSE <<"failed", n>>

\* The retry branch with the delay started before onRetry is invoked.
DelayBeforeOnRetry(att) == <<<<"delay", att>>, <<"onRetry", att>>>>

\* part_005:76-79: onRetry is invoked and returns, then the delay of this
\* attempt is computed and its timer started.
BeforeNextAttempt(att) == <<<<"onRetry", att>>, <<"delay", att>>>>

\* The loop condition of a loop that counts its attempts from 0.
LoopTestFromZero(att, policy, last) ==
  IF att - 1 <= policy.attempts THEN [rpc |-> "attempt", result |-> NoRes]
  ELSE [rpc |-> "threw", result |-> Threw(RetryExhaustedError(last))]

\* part_005:66: loop condition; part_005:83 when it fails.
LoopTest(att, policy, last) ==
  IF att <= policy.attempts THEN [rpc |-> "attempt", result |-> NoRes]
  ELSE [rpc |-> "threw", result |-> Threw(RetryExhaustedError(last))]

\* The value a handler hands back when it returns something defined.
HandlerResult(hb, slot) ==
  IF hb = "null" THEN Val("null", "-", NoErr)
  ELSE Val("handlerResult", slot, NoErr)

\* executeCallback with `result ?? input` in place of the test against
\* undefined of callback-validator.ts:48.
ExecuteCallbackNullish(shape, slot, input, hb, r) ==
  IF shape = "none" THEN ReturnedValue(input)
  ELSE IF hb = "throws"
    THEN Threw(Err("Error", "handler", 0, 0, "none", 0, slot, "handler threw"))
  ELSE IF shape = "schema" THEN
    IF IsSuccess(r) THEN ReturnedValue(Val("callbackValidated", slot, NoErr))
    ELSE IF IsFailure(r)
      THEN Threw(ValidationError("callback",
                                 "Callback result validation failed"))
      ELSE Threw(ValidationError("callback",
                   "Callback result validation failed: Unknown error"))
  ELSE IF hb = "defined" THEN ReturnedValue(HandlerResult(hb, slot))
  ELSE ReturnedValue(input)

\* executeCallback returning whatever a plain handler returned, undefined
\* included.
ExecuteCallbackAsReturned(shape, slot, input, hb, r) ==
  IF shape = "none" THEN ReturnedValue(input)
  ELSE IF hb = "throws"
    THEN Threw(Err("Error", "handler", 0, 0, "none", 0, slot, "handler threw"))
  ELSE IF shape = "schema" THEN
    IF IsSuccess(r) THEN ReturnedValue(Val("callbackValidated", slot, NoErr))
    ELSE IF IsFailure(r)
      THEN Threw(ValidationError("callback",
                                 "Callback result validation failed"))
      ELSE Threw(ValidationError("callback",
                   "Callback result validation failed: Unknown error"))
  ELSE IF hb # "undefined" THEN ReturnedValue(HandlerResult(hb, slot))
  ELSE ReturnedValue(Val("undefined", "-", NoErr))

\* callback-validator.ts:17-50. shape is the option's shape, hb what the
\* handler does, r what the paired schema answers.
ExecuteCallback(shape, slot, input, hb, r) ==
  IF shape = "none" THEN ReturnedValue(input)
  ELSE IF hb = "throws"
    THEN Threw(Err("Error", "handler", 0, 0, "none", 0, slot, "handler threw"))
  ELSE IF shape = "schema" THEN
    IF IsSuccess(r) THEN ReturnedValue(Val("callbackValidated", slot, NoErr))
    ELSE IF IsFailure(r)
      THEN Threw(ValidationError("callback",
                                 "Callback result validation failed"))
      ELSE Threw(ValidationError("callback",
                   "Callback result validation failed: Unknown error"))
  ELSE IF hb # "undefined" THEN ReturnedValue(HandlerResult(hb, slot))
  ELSE ReturnedValue(input)

\* methods.ts:199: error.message.includes('Callback result validation failed')
IsCallbackResultError(e) ==
  e.kind = "ValidationError"
  /\ e.msg \in {"Callback result validation failed",
                "Callback result validation failed: Unknown error"}

\* The outer catch with the onError test placed first.
RouteErrorGenericFirst(e, cb) ==
  IF IsCallbackResultError(e) THEN "rethrow"
  ELSE IF cb["onError"] THEN "onError"
  ELSE IF e.kind = "HttpError" /\ cb["onHttpError"] THEN "onHttpError"
  ELSE IF e.kind = "NetworkError" /\ cb["onNetworkError"]
    THEN "onNetworkError"
  ELSE IF e.kind = "TimeoutError" /\ cb["onTimeout"] THEN "onTimeout"
  ELSE "rethrow"

\* The outer catch re-raising an HttpError that has no onHttpError slot.
RouteErrorHttpRethrown(e, cb) ==
  IF IsCallbackResultError(e) THEN "rethrow"
  ELSE IF e.kind = "HttpError"
    THEN IF cb["onHttpError"] THEN "onHttpError" ELSE "rethrow"
  ELSE IF e.kind = "NetworkError" /\ cb["onNetworkError"]
    THEN "onNetworkError"
  ELSE IF e.kind = "TimeoutError" /\ cb["onTimeout"] THEN "onTimeout"
  ELSE IF cb["onError"] THEN "onError"
  ELSE "rethrow"

\* The outer catch without the `if (options.onError)` guard of line 218.
RouteErrorUnguarded(e, cb) ==
  IF IsCallbackResultError(e) THEN "rethrow"
  ELSE IF e.kind = "HttpError" /\ cb["onHttpError"] THEN "onHttpError"
  ELSE IF e.kind = "NetworkError" /\ cb["onNetworkError"]
    THEN "onNetworkError"
  ELSE IF e.kind = "TimeoutError" /\ cb["onTimeout"] THEN "onTimeout"
  ELSE "onError"

\* The outer catch without the onHttpError branch of lines 204-208.
RouteErrorHttpToGeneric(e, cb) ==
  IF IsCallbackResultError(e) THEN "rethrow"
  ELSE IF e.kind = "NetworkError" /\ cb["onNetworkError"]
    THEN "onNetworkError"
  ELSE IF e.kind = "TimeoutError" /\ cb["onTimeout"] THEN "onTimeout"
  ELSE IF cb["onError"] THEN "onError"
  ELSE "rethrow"

\* methods.ts:204-222: the slot the outer catch hands the error to.
RouteError(e, cb) ==
  IF IsCallbackResultError(e) THEN "rethrow"
  ELSE IF e.kind = "HttpError" /\ cb["onHttpError"]
    THEN "onHttpError"
  ELSE IF e.kind = "NetworkError" /\ cb["onNetworkError"]
    THEN "onNetworkError"
  ELSE IF e.kind = "TimeoutError" /\ cb["onTimeout"]
    THEN "onTimeout"
  ELSE IF cb["onError"] THEN "onError"
  ELSE "rethrow"

\* methods.ts:205-206: what the routed handler receives.
CallbackInput(slot, e) ==
  IF slot = "onHttpError"
    THEN IF e.data # "none" THEN Val("errorData", "-", e)
         ELSE Val("response", "-", e)
    ELSE Val("error", "-", e)

\* An inner catch that re-raises whatever it caught.
InnerCatchRethrows(e, cb) == FALSE

\* methods.ts:188-194: whether the inner catch hands the error to
\* onValidationError.
InnerCatchRoutes(e, cb) ==
  e.kind = "ValidationError" /\ cb["onValidationError"]

\* The state of a call as a value: what is set aside when the call is
\* suspended at an await and another call runs.
Snapshot ==
  [pc |-> pc, callbacks |-> callbacks, body |-> body,
   validatedBody |-> validatedBody, inputIssues |-> inputIssues,
   options |-> options, request |-> request, sent |-> sent, retry |-> retry,
   timeout |-> timeout, errorSchema |-> errorSchema, rpc |-> rpc,
   attempt |-> attempt, lastError |-> lastError, result |-> result,
   exchanges |-> exchanges, retryLog |-> retryLog, events |-> events,
   raised |-> raised, fetched |-> fetched, response |-> response,
   data |-> data, thrown |-> thrown, invoked |-> invoked,
   outcome |-> outcome]

\* A call that has not been made yet.
IdleCall ==
  [pc |-> "idle", callbacks |-> [s \in Slots |-> FALSE], body |-> "undefined",
   validatedBody |-> "undefined", inputIssues |-> FALSE,
   options |-> NoOptions, request |-> NoRequest, sent |-> NoRequest,
   retry |-> NoRetry, timeout |-> Undefined, errorSchema |-> FALSE,
   rpc |-> "none", attempt |-> 0, lastError |-> NoErr, result |-> NoRes,
   exchanges |-> 0, retryLog |-> <<>>, events |-> <<>>, raised |-> NoErr,
   fetched |-> NoFetch, response |-> NoResp, data |-> NoVal,
   thrown |-> NoErr, invoked |-> <<>>, outcome |-> Pending]

(***************************************************************************)
(* Initial state                                                           *)
(***************************************************************************)
Init ==
  /\ pc = "idle"
  /\ globalConfig = EmptyConfig
  /\ configured = EmptyConfig
  /\ other = IdleCall
  /\ callbacks = [s \in Slots |-> FALSE]
  /\ body = "undefined"
  /\ validatedBody = "undefined"
  /\ inputIssues = FALSE
  /\ options = NoOptions
  /\ request = NoRequest
  /\ sent = NoRequest
  /\ retry = NoRetry
  /\ timeout = Undefined
  /\ errorSchema = FALSE
  /\ rpc = "none"
  /\ attempt = 0
  /\ lastError = NoErr
  /\ result = NoRes
  /\ exchanges = 0
  /\ retryLog = <<>>
  /\ events = <<>>
  /\ raised = NoErr
  /\ fetched = NoFetch
  /\ response = NoResp
  /\ data = NoVal
  /\ thrown = NoErr
  /\ invoked = <<>>
  /\ outcome = Pending
  /\ applied = NoApplication
  /\ clock = NoClock

(***************************************************************************)
(* executeHttpRequestWithCallbacks, methods.ts:128-224                     *)
(***************************************************************************)

\* methods.ts:128-144: a verb function is called with callback options
\* among cbs, a URL among urls and a body among bodies.
CallWith(cbs, urls, bodies) ==
  /\ pc = "idle"
  /\ \E cb \in cbs, u \in urls, b \in bodies, hasInput \in BOOLEAN :
       /\ callbacks' = cb
       /\ request' = Request(ResolveUrl(globalConfig, u), NoHeaders, "none")
       /\ body' = b
       /\ validatedBody' = b
       /\ pc' = IF hasInput /\ b \notin {"undefined", "null"}
                  THEN "validatingInput" ELSE "dispatching"
  /\ UNCHANGED outside
  /\ UNCHANGED <<options, sent, inputIssues, exchanges, retryLog, events,
                 raised, fetched>>
  /\ UNCHANGED retryVars
  /\ UNCHANGED routeVars

\* A call while the global configuration is the initial one.
Call == CallWith(CallbackOptions, {[absolute |-> TRUE]}, Bodies)

\* methods.ts:145-156
ValidateInput ==
  /\ pc = "validatingInput"
  /\ \E r \in SchemaResults :
       LET v == InputValidation(r)
       IN  /\ inputIssues' = IsFailure(r)
           /\ IF v.ok
                THEN /\ validatedBody' = "validated"
                     /\ pc' = "dispatching"
                     /\ UNCHANGED <<outcome, raised>>
                ELSE /\ outcome' = Rejected(v.err)
                     /\ raised' = v.err
                     /\ pc' = "done"
                     /\ UNCHANGED validatedBody
  /\ UNCHANGED outside
  /\ UNCHANGED <<callbacks, body, exchanges, retryLog, events, fetched,
                 response, data, thrown, invoked>>
  /\ UNCHANGED requestVars
  /\ UNCHANGED retryVars

(***************************************************************************)
(* executeHttpRequest and withRetry                                        *)
(***************************************************************************)

\* part_005:62-66: withRetry is entered with a policy.
EnterRetry(policy) ==
  LET t == LoopTest(1, policy, NoErr)
  IN  /\ retry' = policy
      /\ attempt' = 1
      /\ rpc' = t.rpc
      /\ result' = t.result
      /\ raised' = t.result.err
      /\ lastError' = NoErr

\* methods.ts:158-175 and core.ts:17-30, 109-111, for options among os.
DispatchWith(os) ==
  /\ pc = "dispatching"
  /\ rpc = "none"
  /\ \E o \in os :
       /\ options' = o
       /\ request' =
            Request(request.url,
                    MergedHeaders(globalConfig,
                                  BodyToPrepare(body, validatedBody), o),
                    PrepareBody(BodyToPrepare(body, validatedBody)).body)
       /\ globalConfig' =
            StoreAfterMerge(globalConfig, PerCallHeaders(validatedBody, o))
       /\ timeout' = ResolveTimeout(o, globalConfig)
       /\ errorSchema' = o.errorSchema
       /\ IF ResolveRetry(o, globalConfig) # NoRetry
            THEN EnterRetry(ResolveRetry(o, globalConfig))
            ELSE /\ retry' = NoRetry
                 /\ attempt' = 1
                 /\ rpc' = "attempt"
                 /\ UNCHANGED <<result, lastError, raised>>
  /\ UNCHANGED <<configured, other, applied, clock>>
  /\ UNCHANGED <<pc, sent, exchanges, retryLog, events, fetched>>
  /\ UNCHANGED callVars
  /\ UNCHANGED routeVars

Dispatch == DispatchWith(RequestOptions)

\* part_005:67-80 (and core.ts:111 without a policy): the operation has
\* settled with r in attempt `attempt`.
AttemptDone(r) ==
  IF r.ok \/ retry = NoRetry
    THEN /\ rpc' = IF r.ok THEN "returned" ELSE "threw"
         /\ result' = r
         /\ raised' = r.err
         /\ events' = Append(events, Settled(r, exchanges))
         /\ UNCHANGED <<lastError, retryLog>>
    ELSE /\ lastError' = r.err
         /\ IF GivesUp(r.err, attempt, retry)
              THEN /\ rpc' = "threw"
                   /\ result' = r
                   /\ raised' = r.err
                   /\ events' = Append(events, Settled(r, exchanges))
                   /\ UNCHANGED retryLog
              ELSE /\ rpc' = "sleeping"
                   /\ retryLog' = Append(retryLog, <<attempt, r.err.n>>)
                   /\ raised' = r.err
                   /\ events' = Append(events, Settled(r, exchanges))
                                  \o BeforeNextAttempt(attempt)
                   /\ UNCHANGED result

\* part_005:68 and core.ts:30-44: the operation is called; in a call it
\* builds the fetch options and calls fetch, which is then awaited.
StartAttempt ==
  /\ rpc = "attempt"
  /\ exchanges < MaxExchanges
  /\ rpc' = "inFlight"
  /\ exchanges' = exchanges + 1
  /\ events' = Append(events, <<"start", attempt>>)
  /\ sent' = request
  /\ clock' = ClockAt(clock.now, clock.now,
                      AbortSignalTimeout(timeout, clock.now))
  /\ UNCHANGED shared
  /\ UNCHANGED <<pc, options, request, retry, timeout, errorSchema, attempt,
                 lastError, result, retryLog, raised, fetched>>
  /\ UNCHANGED callVars
  /\ UNCHANGED routeVars

\* core.ts:44-107: the exchange of the call settles, fetch behaving in one
\* of the ways bs.
FetchAttemptWith(bs) ==
  /\ pc = "dispatching"
  /\ rpc = "inFlight"
  /\ \E b \in bs, r \in SchemaResults :
       /\ AttemptDone(FetchWithRetry(b, r, timeout, errorSchema, exchanges))
       /\ fetched' = Fetched(b.rejects, b.resp,
                             ErrorBodyAnswer(b, r, errorSchema))
  /\ UNCHANGED outside
  /\ UNCHANGED <<pc, retry, timeout, errorSchema, attempt, exchanges>>
  /\ UNCHANGED requestVars
  /\ UNCHANGED callVars
  /\ UNCHANGED routeVars

\* The exchange settles in any way, whatever the time.
FetchAttempt == FetchAttemptWith(FetchBehaviours)

\* The delay has elapsed and the loop goes round without attempt++.
SleepSameAttempt ==
  /\ rpc = "sleeping"
  /\ rpc' = "attempt"
  /\ result' = NoRes
  /\ events' = Append(events, <<"elapsed", attempt>>)
  /\ UNCHANGED outside
  /\ UNCHANGED <<pc, retry, timeout, errorSchema, attempt, lastError,
                 exchanges, retryLog, raised, fetched>>
  /\ UNCHANGED requestVars
  /\ UNCHANGED callVars
  /\ UNCHANGED routeVars

\* part_005:79, 66: the delay has elapsed; next iteration of the loop.
Sleep ==
  /\ rpc = "sleeping"
  /\ LET t == LoopTest(attempt + 1, retry, lastError)
     IN  /\ attempt' = attempt + 1
         /\ rpc' = t.rpc
         /\ result' = t.result
         /\ events' = Append(events, <<"elapsed", attempt>>)
  /\ UNCHANGED outside
  /\ UNCHANGED <<pc, retry, timeout, errorSchema, lastError, exchanges,
                 retryLog, raised, fetched>>
  /\ UNCHANGED requestVars
  /\ UNCHANGED callVars
  /\ UNCHANGED routeVars

\* methods.ts:168, 196: executeHttpRequest hands its result to the call.
DispatchReturn ==
  /\ pc = "dispatching"
  /\ rpc \in {"returned", "threw"}
  /\ IF result.ok
       THEN /\ response' = result.resp
            /\ pc' = "parsing"
            /\ UNCHANGED thrown
       ELSE /\ thrown' = result.err
            /\ pc' = "outerCatch"
            /\ UNCHANGED response
  /\ retry' = NoRetry
  /\ timeout' = Undefined
  /\ errorSchema' = FALSE
  /\ rpc' = "none"
  /\ attempt' = 0
  /\ lastError' = NoErr
  /\ result' = NoRes
  /\ body' = "undefined"
  /\ validatedBody' = "undefined"
  /\ options' = NoOptions
  /\ request' = NoRequest
  /\ sent' = NoRequest
  /\ clock' = NoClock
  /\ UNCHANGED shared
  /\ UNCHANGED <<callbacks, inputIssues, exchanges, retryLog, events, raised,
                 fetched, data, invoked, outcome>>

(***************************************************************************)
(* Parsing and routing                                                     *)
(***************************************************************************)

\* The shapes options[slot] can have; an unregistered slot is undefined.
ShapesOf(slot) == IF callbacks[slot] THEN Shapes ELSE {"none"}

\* How an executeCallback run ended, for the record of invocations.
Ended(c) ==
  IF c.ok THEN "returned"
  ELSE IF c.err.site = "callback" THEN "resultInvalid"
  ELSE "threw"

\* A slot handler runs through executeCallback; the call resolves with
\* what it returns, or the error it throws goes to `next`.
RunSlot(slot, input, next) ==
  \E shape \in ShapesOf(slot), hb \in HandlerBehaviours,
     r \in SchemaResults :
    LET c == ExecuteCallback(shape, slot, input, hb, r)
    IN  /\ invoked' = Append(invoked,
                           [slot |-> slot, shape |-> shape, handler |-> hb,
                            input |-> input, ended |-> Ended(c)])
        /\ IF c.ok
             THEN /\ outcome' = Resolved(c.value)
                  /\ pc' = "done"
                  /\ thrown' = NoErr
             ELSE IF next = "done"
               THEN /\ outcome' = Rejected(c.err)
                    /\ pc' = "done"
                    /\ thrown' = NoErr
               ELSE /\ thrown' = c.err
                    /\ pc' = next
                    /\ UNCHANGED outcome

\* methods.ts:178-186
ParseSuccessBody ==
  /\ pc = "parsing"
  /\ \E hasSchema \in BOOLEAN, r \in SchemaResults :
       LET j == Json(response, hasSchema, r, "successBody")
       IN  IF j.ok
             THEN /\ thrown' = NoErr
                  /\ UNCHANGED raised
                  /\ IF callbacks["onSuccess"]
                       THEN /\ data' = j.value
                            /\ pc' = "onSuccess"
                            /\ UNCHANGED outcome
                       ELSE /\ outcome' = Resolved(j.value)
                            /\ pc' = "done"
                            /\ UNCHANGED data
             ELSE /\ thrown' = j.err
                  /\ raised' = j.err
                  /\ pc' = "innerCatch"
                  /\ UNCHANGED <<data, outcome>>
  /\ response' = NoResp
  /\ UNCHANGED outside
  /\ UNCHANGED <<invoked, exchanges, retryLog, events, fetched>>
  /\ UNCHANGED requestVars
  /\ UNCHANGED callVars
  /\ UNCHANGED retryVars

\* methods.ts:182-184
OnSuccess ==
  /\ pc = "onSuccess"
  /\ RunSlot("onSuccess", data, "innerCatch")
  /\ data' = NoVal
  /\ UNCHANGED outside
  /\ UNCHANGED <<response, exchanges, retryLog, events, raised, fetched>>
  /\ UNCHANGED requestVars
  /\ UNCHANGED callVars
  /\ UNCHANGED retryVars

\* methods.ts:187-195
InnerCatch ==
  /\ pc = "innerCatch"
  /\ IF InnerCatchRoutes(thrown, callbacks)
       THEN RunSlot("onValidationError", Val("error", "-", thrown),
                    "outerCatch")
       ELSE /\ pc' = "outerCatch"
            /\ UNCHANGED <<thrown, invoked, outcome>>
  /\ UNCHANGED outside
  /\ UNCHANGED <<response, data, exchanges, retryLog, events, raised,
                 fetched>>
  /\ UNCHANGED requestVars
  /\ UNCHANGED callVars
  /\ UNCHANGED retryVars

\* methods.ts:196-223
OuterCatch ==
  /\ pc = "outerCatch"
  /\ LET slot == RouteError(thrown, callbacks)
     IN  IF slot = "rethrow"
           THEN /\ outcome' = Rejected(thrown)
                /\ pc' = "done"
                /\ thrown' = NoErr
                /\ UNCHANGED invoked
           ELSE RunSlot(slot, CallbackInput(slot, thrown), "done")
  /\ UNCHANGED outside
  /\ UNCHANGED <<response, data, exchanges, retryLog, events, raised,
                 fetched>>
  /\ UNCHANGED requestVars
  /\ UNCHANGED callVars
  /\ UNCHANGED retryVars

(***************************************************************************)
(* withRetry on its own, part_005:58-88: the operation is any function     *)
(* that returns or throws.                                                 *)
(***************************************************************************)

\* What an arbitrary operation can end in at exchange n.
OpOutcomes(n) ==
  {Returned(Resp(200, TRUE))}
  \cup {Threw(HttpError(n, st, "none")) : st \in Statuses \ {200}}
  \cup {Threw(NetworkError(n, "TypeError")), Threw(TimeoutError(n, 50)),
        Threw(Err("ValidationError", "operation", n, 0, "none", 0, "none",
                  "Response validation failed"))}

InitRetry ==
  /\ pc = "withRetry"
  /\ globalConfig = EmptyConfig
  /\ configured = EmptyConfig
  /\ other = IdleCall
  /\ callbacks = [s \in Slots |-> FALSE]
  /\ body = "undefined"
  /\ validatedBody = "undefined"
  /\ inputIssues = FALSE
  /\ options = NoOptions
  /\ request = NoRequest
  /\ sent = NoRequest
  /\ retry = NoRetry
  /\ timeout = Undefined
  /\ errorSchema = FALSE
  /\ rpc = "none"
  /\ attempt = 0
  /\ lastError = NoErr
  /\ result = NoRes
  /\ exchanges = 0
  /\ retryLog = <<>>
  /\ events = <<>>
  /\ raised = NoErr
  /\ fetched = NoFetch
  /\ response = NoResp
  /\ data = NoVal
  /\ thrown = NoErr
  /\ invoked = <<>>
  /\ outcome = Pending
  /\ applied = NoApplication
  /\ clock = NoClock

\* part_005:58-66: withRetry(fn, retryOptions) is called.
WithRetry ==
  /\ pc = "withRetry"
  /\ rpc = "none"
  /\ \E p \in OpPolicies : EnterRetry(p)
  /\ UNCHANGED outside
  /\ UNCHANGED <<pc, timeout, errorSchema, exchanges, retryLog, events,
                 fetched>>
  /\ UNCHANGED requestVars
  /\ UNCHANGED callVars
  /\ UNCHANGED routeVars

\* part_005:68: fn() is awaited and settles.
OpAttempt ==
  /\ pc = "withRetry"
  /\ rpc = "inFlight"
  /\ \E x \in OpOutcomes(exchanges) : AttemptDone(x)
  /\ UNCHANGED outside
  /\ UNCHANGED <<pc, retry, timeout, errorSchema, attempt, exchanges,
                 fetched>>
  /\ UNCHANGED requestVars
  /\ UNCHANGED callVars
  /\ UNCHANGED routeVars

(***************************************************************************)
(* executeCallback on its own, callback-validator.ts:17-50: any callback   *)
(* option, the undefined one included, and any input.                      *)
(***************************************************************************)

\* Inputs executeCallback is given.
CallbackInputs ==
  {Val("parsed", "-", NoErr), Val("validated", "-", NoErr),
   Val("null", "-", NoErr), Val("error", "-", NetworkError(1, "TypeError"))}

\* The executeCallback calls explored: the option of a slot, what its
\* handler will do, and the input.
CallbackCalls ==
  [slot : Slots, shape : Shapes \cup {"none"}, handler : HandlerBehaviours,
   input : CallbackInputs, ended : {"pending"}]

InitCallback ==
  /\ pc = "executeCallback"
  /\ invoked \in {<<c>> : c \in CallbackCalls}
  /\ globalConfig = EmptyConfig
  /\ configured = EmptyConfig
  /\ other = IdleCall
  /\ callbacks = [s \in Slots |-> FALSE]
  /\ body = "undefined"
  /\ validatedBody = "undefined"
  /\ inputIssues = FALSE
  /\ options = NoOptions
  /\ request = NoRequest
  /\ sent = NoRequest
  /\ retry = NoRetry
  /\ timeout = Undefined
  /\ errorSchema = FALSE
  /\ rpc = "none"
  /\ attempt = 0
  /\ lastError = NoErr
  /\ result = NoRes
  /\ exchanges = 0
  /\ retryLog = <<>>
  /\ events = <<>>
  /\ raised = NoErr
  /\ fetched = NoFetch
  /\ response = NoResp
  /\ data = NoVal
  /\ thrown = NoErr
  /\ outcome = Pending
  /\ applied = NoApplication
  /\ clock = NoClock

\* callback-validator.ts:17-50: executeCallback(callback, input) settles.
ExecuteCallbackCall ==
  /\ pc = "executeCallback"
  /\ \E r \in SchemaResults :
       LET e == invoked[1]
           c == ExecuteCallback(e.shape, e.slot, e.input, e.handler, r)
       IN  /\ invoked' = <<[e EXCEPT !.ended = Ended(c)]>>
           /\ outcome' = IF c.ok THEN Resolved(c.value) ELSE Rejected(c.err)
  /\ pc' = "done"
  /\ UNCHANGED outside
  /\ UNCHANGED <<exchanges, retryLog, events, raised, fetched, response,
                 data, thrown>>
  /\ UNCHANGED requestVars
  /\ UNCHANGED callVars
  /\ UNCHANGED retryVars

(***************************************************************************)
(* Calls under a global configuration that configure() replaces at any     *)
(* moment, methods.ts:17-34.                                               *)
(***************************************************************************)

\* The running call is at an await, or has not started or has settled:
\* from the call to the first fetch() and from the end of a delay to the
\* next fetch() the code runs without yielding.
AtAwait == ~(pc = "dispatching" /\ rpc \in {"none", "attempt"})

\* methods.ts:32-34: configure() runs while no call is running or while
\* the running call is suspended.
Configure ==
  /\ AtAwait
  /\ \E c \in Configs :
       /\ globalConfig' = ConfigureStore(globalConfig, c)
       /\ configured' = c
  /\ UNCHANGED <<other, applied, clock>>
  /\ UNCHANGED <<pc, exchanges, retryLog, events, raised, fetched>>
  /\ UNCHANGED callVars
  /\ UNCHANGED requestVars
  /\ UNCHANGED retryVars
  /\ UNCHANGED routeVars

ConfiguredCall ==
  CallWith(ConfiguredCallbacks, Urls, {"undefined", "object"})

ConfiguredDispatch == DispatchWith(ConfiguredOptions)

Next ==
  \/ Call
  \/ ValidateInput
  \/ Dispatch
  \/ StartAttempt
  \/ FetchAttempt
  \/ Sleep
  \/ DispatchReturn
  \/ ParseSuccessBody
  \/ OnSuccess
  \/ InnerCatch
  \/ OuterCatch

Spec == Init /\ [][Next]_vars

\* The callback options of the runs checked for progress: no slot, one
\* slot, or every slot registered.
LiveCallbacks ==
  {cb \in CallbackOptions :
     Cardinality({s \in Slots : cb[s]}) \in {0, 1, Cardinality(Slots)}}

LiveCall ==
  CallWith(LiveCallbacks, {[absolute |-> TRUE]}, {"undefined", "object"})

NextLive ==
  \/ LiveCall
  \/ ValidateInput
  \/ Dispatch
  \/ StartAttempt
  \/ FetchAttempt
  \/ Sleep
  \/ DispatchReturn
  \/ ParseSuccessBody
  \/ OnSuccess
  \/ InnerCatch
  \/ OuterCatch

\* A call that has started always takes its next step: every fetch, schema
\* validation, handler and delay timer completes.
SpecLive == Init /\ [][NextLive]_vars /\ WF_vars(pc # "idle" /\ NextLive)

NextRetry ==
  \/ WithRetry
  \/ StartAttempt
  \/ OpAttempt
  \/ Sleep

SpecRetry == InitRetry /\ [][NextRetry]_vars

(***************************************************************************)
(* Two calls in flight at the same time. One runs at a time; at an await   *)
(* the running call is set aside and the other one goes on.                *)
(***************************************************************************)

\* The callback options of the two calls: no slot, or onError alone.
PairCallbacks == {[s \in Slots |-> b /\ s = "onError"] : b \in BOOLEAN}

\* The options of the two calls.
PairOptions ==
  [timeout : {Undefined},
   retry : {NoRetry, [attempts |-> 2, retryOn |-> {500}]},
   errorSchema : {FALSE},
   headers : {NoHeaders, [NoHeaders EXCEPT !["X-Trace"] = "custom"]},
   form : {"record"}, auth : {FALSE}]

PairCall == CallWith(PairCallbacks, {[absolute |-> TRUE]}, {"undefined"})

PairDispatch == DispatchWith(PairOptions)

\* The running call is suspended and the other call runs on.
Switch ==
  /\ AtAwait
  /\ other' = Snapshot
  /\ pc' = other.pc
  /\ callbacks' = other.callbacks
  /\ body' = other.body
  /\ validatedBody' = other.validatedBody
  /\ inputIssues' = other.inputIssues
  /\ options' = other.options
  /\ request' = other.request
  /\ sent' = other.sent
  /\ retry' = other.retry
  /\ timeout' = other.timeout
  /\ errorSchema' = other.errorSchema
  /\ rpc' = other.rpc
  /\ attempt' = other.attempt
  /\ lastError' = other.lastError
  /\ result' = other.result
  /\ exchanges' = other.exchanges
  /\ retryLog' = other.retryLog
  /\ events' = other.events
  /\ raised' = other.raised
  /\ fetched' = other.fetched
  /\ response' = other.response
  /\ data' = other.data
  /\ thrown' = other.thrown
  /\ invoked' = other.invoked
  /\ outcome' = other.outcome
  /\ UNCHANGED <<configVars, applied, clock>>

NextPair ==
  \/ PairCall
  \/ PairDispatch
  \/ StartAttempt
  \/ FetchAttempt
  \/ Sleep
  \/ DispatchReturn
  \/ ParseSuccessBody
  \/ InnerCatch
  \/ OuterCatch
  \/ Switch

SpecPair == Init /\ [][NextPair]_vars

NextConfig ==
  \/ Configure
  \/ ConfiguredCall
  \/ ValidateInput
  \/ ConfiguredDispatch
  \/ StartAttempt
  \/ FetchAttempt
  \/ Sleep
  \/ DispatchReturn
  \/ ParseSuccessBody
  \/ OnSuccess
  \/ InnerCatch
  \/ OuterCatch

SpecConfig == Init /\ [][NextConfig]_vars

\* The options of the runs that explore the headers: any subset of the keys
\* as custom headers, given as a record or as a Headers instance, with or
\* without the auth shorthand.
HeaderOptions ==
  [timeout : {Undefined}, retry : {NoRetry}, errorSchema : {FALSE},
   headers : [HeaderKeys -> {"absent", "custom"}],
   form : {"record", "Headers"}, auth : BOOLEAN]

HeaderCall ==
  CallWith({[s \in Slots |-> FALSE]}, {[absolute |-> TRUE]},
           {"undefined", "object"})

HeaderDispatch == DispatchWith(HeaderOptions)

NextHeaders ==
  \/ Configure
  \/ HeaderCall
  \/ ValidateInput
  \/ HeaderDispatch
  \/ StartAttempt
  \/ FetchAttempt
  \/ DispatchReturn
  \/ ParseSuccessBody
  \/ InnerCatch
  \/ OuterCatch

SpecHeaders == Init /\ [][NextHeaders]_vars

NextCallback == ExecuteCallbackCall

SpecCallback == InitCallback /\ [][NextCallback]_vars

(***************************************************************************)
(* A call under a clock: time passes while an exchange is in flight and    *)
(* during the delays, and fetch rejects with the timeout exactly when its  *)
(* signal has fired.                                                       *)
(***************************************************************************)

ClockOptions ==
  [timeout : {Undefined, 100},
   retry : {[attempts |-> MaxAttempts, retryOn |-> {500}]},
   errorSchema : {FALSE}, headers : {NoHeaders}, form : {"record"},
   auth : {FALSE}]

ClockCall ==
  CallWith({[s \in Slots |-> FALSE]}, {[absolute |-> TRUE]}, {"undefined"})

ClockDispatch == DispatchWith(ClockOptions)

\* The signal given to the fetch in flight has fired.
SignalFired == clock.deadline # Undefined /\ clock.now >= clock.deadline

\* Time passes, but not beyond the moment a signal fires.
Tick ==
  /\ pc = "dispatching"
  /\ rpc \in {"inFlight", "sleeping"}
  /\ clock.now < MaxTicks * TickMs
  /\ ~(rpc = "inFlight" /\ SignalFired)
  /\ clock' = [clock EXCEPT !.now = @ + TickMs]
  /\ UNCHANGED shared
  /\ UNCHANGED <<pc, exchanges, retryLog, events, raised, fetched>>
  /\ UNCHANGED callVars
  /\ UNCHANGED requestVars
  /\ UNCHANGED retryVars
  /\ UNCHANGED routeVars

\* The exchange settles: with the rejection of the timeout when the signal
\* has fired, in any other way when it has not.
TimedFetchAttempt ==
  FetchAttemptWith({b \in FetchBehaviours :
                      (b.rejects \in {"TimeoutError", "AbortError"})
                        <=> SignalFired})

NextClock ==
  \/ ClockCall
  \/ ClockDispatch
  \/ StartAttempt
  \/ TimedFetchAttempt
  \/ Tick
  \/ Sleep
  \/ DispatchReturn
  \/ ParseSuccessBody
  \/ InnerCatch
  \/ OuterCatch

SpecClock == Init /\ [][NextClock]_vars

(***************************************************************************)
(* calculateDelay on its own.                                              *)
(***************************************************************************)

\* types.ts:79-86: the fields of a policy that calculateDelay reads.
DelayPolicies ==
  [backoff : {"exponential", "linear"},
   initialDelay : {0, 1, 100, 1000},
   maxDelay : {0, 150, 500, 10000}]

\* Math.pow(2, e) for a whole e >= 0, by repeated doubling.
RECURSIVE MathPow2(_)
MathPow2(e) == IF e = 0 THEN 1 ELSE 2 * MathPow2(e - 1)

MathMin(a, b) == IF a <= b THEN a ELSE b

\* The exponent counted from the attempt number itself.
CalculateDelayDoubled(att, policy) ==
  MathMin(IF policy.backoff = "exponential"
            THEN policy.initialDelay * MathPow2(att)
            ELSE policy.initialDelay * att,
          policy.maxDelay)

\* part_005:19-31.
CalculateDelay(att, policy) ==
  MathMin(IF policy.backoff = "exponential"
            THEN policy.initialDelay * MathPow2(att - 1)
            ELSE policy.initialDelay * att,
          policy.maxDelay)

\* part_005:78: withRetry asks for the delay after failed attempt n.
CalculateDelayCall ==
  /\ applied = NoApplication
  /\ \E n \in 1..MaxDelayAttempt, policy \in DelayPolicies :
       applied' = Applied("calculateDelay", <<n, policy>>,
                          CalculateDelay(n, policy))
  /\ UNCHANGED programVars

NextDelay == CalculateDelayCall

SpecDelay == Init /\ [][NextDelay]_vars

(***************************************************************************)
(* prepareAuthHeaders on its own                                           *)
(***************************************************************************)

\* Strings are sequences of UTF-16 code units; the ones explored are made
\* of 'A', of 'e' with an acute accent and of the euro sign.
Chars == {65, 233, 8364}

Colon == 58

Strings(n) == UNION {[1..k -> Chars] : k \in 0..n}

\* An optional string property: left out, or given with its characters.
Missing == [defined |-> FALSE, chars |-> <<>>]

Text(s) == [defined |-> TRUE, chars |-> s]

\* types.ts AuthOptions.bearer / apiKey: left out, empty, or a token.
Tokens == {Missing, Text(<<>>), Text(<<65>>)}

\* types.ts AuthOptions.basic: left out, or a username and a password.
BasicOptions ==
  {[defined |-> FALSE, username |-> <<>>, password |-> <<>>]}
    \cup [defined : {TRUE}, username : Strings(MaxCredentialLen),
          password : Strings(MaxCredentialLen)]

AuthOptions == [bearer : Tokens, apiKey : Tokens, basic : BasicOptions]

\* `if (auth.bearer)`: an optional string is truthy when given and not ''.
TruthyText(t) == t.defined /\ t.chars # <<>>

\* The index of '=' among the output symbols of base64, after the 64
\* digits 0..63.
Pad == 64

\* The four base64 digits of a 24-bit group.
Sextets(v) ==
  <<(v \div 262144) % 64, (v \div 4096) % 64, (v \div 64) % 64, v % 64>>

\* base64 of a sequence of bytes, as digit indexes and padding.
RECURSIVE Base64(_)
Base64(b) ==
  IF Len(b) = 0 THEN <<>>
  ELSE IF Len(b) = 1
    THEN LET q == Sextets(b[1] * 65536) IN <<q[1], q[2], Pad, Pad>>
  ELSE IF Len(b) = 2
    THEN LET q == Sextets(b[1] * 65536 + b[2] * 256)
         IN  <<q[1], q[2], q[3], Pad>>
  ELSE Sextets(b[1] * 65536 + b[2] * 256 + b[3])
         \o Base64(SubSeq(b, 4, Len(b)))

\* btoa(): throws InvalidCharacterError when a code unit is above 255,
\* else encodes the code units as bytes.
Btoa(s) ==
  IF \E i \in 1..Len(s) : s[i] > 255
    THEN [threw |-> TRUE, chars |-> <<>>]
    ELSE [threw |-> FALSE, chars |-> Base64(s)]

\* What prepareAuthHeaders hands back: it threw, or a record with an
\* Authorization property of some scheme, or an empty record.
Authorization(scheme, payload) ==
  [threw |-> FALSE, scheme |-> scheme, payload |-> payload]

NoAuthorization == Authorization("none", <<>>)

AuthThrew == [threw |-> TRUE, scheme |-> "none", payload |-> <<>>]

\* methods.ts:88-101
PrepareAuthHeadersOf(auth) ==
  IF TruthyText(auth.bearer)
    THEN Authorization("Bearer", auth.bearer.chars)
  ELSE IF TruthyText(auth.apiKey)
    THEN Authorization("ApiKey", auth.apiKey.chars)
  ELSE IF auth.basic.defined
    THEN LET e == Btoa(auth.basic.username \o <<Colon>>
                         \o auth.basic.password)
         IN  IF e.threw THEN AuthThrew
             ELSE Authorization("Basic", e.chars)
  ELSE NoAuthorization

\* prepareAuthHeaders is applied to some auth options.
PrepareAuthHeadersCall ==
  /\ applied = NoApplication
  /\ \E a \in AuthOptions :
       applied' = Applied("prepareAuthHeaders", a, PrepareAuthHeadersOf(a))
  /\ UNCHANGED programVars

NextAuth == PrepareAuthHeadersCall

SpecAuth == Init /\ [][NextAuth]_vars

(***************************************************************************)
(* prepareUrl on its own                                                   *)
(***************************************************************************)

\* Property names of the query objects explored: two that are array
\* indexes and two that are not.
QueryKeys == {"1", "2", "a", "b"}

\* The number an array-index property name stands for, 0 for other names.
KeyNumber(k) == IF k = "1" THEN 1 ELSE IF k = "2" THEN 2 ELSE 0

IntegerLike(k) == KeyNumber(k) > 0

\* The largest number a property name of QueryKeys stands for.
LargestKeyNumber == 2

\* types.ts:131: the kinds of value a query entry can have.
QueryValues == {"null", "undefined", "string", "number", "boolean"}

\* The entries of a query object in the order the caller wrote them, the
\* property names being distinct.
EntryLists ==
  UNION {{q \in [1..n -> [key : QueryKeys, value : QueryValues]] :
            \A i, j \in 1..n : i # j => q[i].key # q[j].key}
         : n \in 0..MaxQueryLen}

\* options.query: left out, or an object.
Queries ==
  {[given |-> FALSE, entries |-> <<>>]}
    \cup [given : {TRUE}, entries : EntryLists]

\* The characters of the URLs explored, and the URLs.
UrlChars == {"/", "u", "?"}

UrlTexts == UNION {[1..n -> UrlChars] : n \in 0..MaxUrlLen}

\* The entries of q whose property name stands for the number n.
Numbered(q, n) == SelectSeq(q, LAMBDA e : KeyNumber(e.key) = n)

\* The array-index entries of q by ascending number, up to n.
RECURSIVE Ascending(_, _)
Ascending(q, n) ==
  IF n = 0 THEN <<>> ELSE Ascending(q, n - 1) \o Numbered(q, n)

\* Object.entries() that keeps the order the properties were written in.
ObjectEntriesAsWritten(q) == q

\* Object.entries(): array-index property names first, by ascending
\* number, then the other names in the order they were added.
ObjectEntries(q) ==
  Ascending(q, LargestKeyNumber)
    \o SelectSeq(q, LAMBDA e : ~IntegerLike(e.key))

\* String(value) of a value that is neither null nor undefined.
StringOf(v) ==
  IF v = "number" THEN "1" ELSE IF v = "boolean" THEN "true" ELSE "x"

\* URLSearchParams.toString(): name=value pairs joined by '&'.
RECURSIVE ParamsToString(_)
ParamsToString(params) ==
  IF params = <<>> THEN <<>>
  ELSE <<params[1].key, "=", params[1].value>>
         \o (IF Len(params) = 1 THEN <<>> ELSE <<"&">>)
         \o ParamsToString(Tail(params))

\* url.includes('?')
Includes(url, c) == \E i \in 1..Len(url) : url[i] = c

\* methods.ts:111-117: the parameters appended for the entries of query.
RECURSIVE AppendAll(_)
AppendAll(es) ==
  IF es = <<>> THEN <<>>
  ELSE (IF es[1].value \notin {"null", "undefined"}
          THEN <<[key |-> es[1].key, value |-> StringOf(es[1].value)]>>
          ELSE <<>>)
         \o AppendAll(Tail(es))

\* methods.ts:103-126
PrepareUrl(url, query) ==
  IF ~query.given THEN url
  ELSE LET queryString ==
             ParamsToString(AppendAll(ObjectEntries(query.entries)))
       IN  IF queryString # <<>>
             THEN url \o <<IF Includes(url, "?") THEN "&" ELSE "?">>
                      \o queryString
             ELSE url

\* prepareUrl is applied to a URL and a query.
PrepareUrlCall ==
  /\ applied = NoApplication
  /\ \E u \in UrlTexts, q \in Queries :
       applied' = Applied("prepareUrl", [url |-> u, query |-> q],
                          PrepareUrl(u, q))
  /\ UNCHANGED programVars

NextQuery == PrepareUrlCall

SpecQuery == Init /\ [][NextQuery]_vars

(***************************************************************************)
(* resolveUrl on its own                                                   *)
(***************************************************************************)

\* The pieces of text the URLs given to resolveUrl are made of, and those
\* URLs; "u" stands for a run of letters that does not begin with "http".
UrlPieces == {"http", ":", "/", "u"}

RequestUrls == UNION {[1..n -> UrlPieces] : n \in 0..MaxPathLen}

\* globalConfig.baseUrl: not configured (or ''), or http://u followed by
\* no slash, one slash or two.
BaseUrls ==
  {<<>>, <<"http", ":", "/", "/", "u">>,
   <<"http", ":", "/", "/", "u", "/">>,
   <<"http", ":", "/", "/", "u", "/", "/">>}

\* url.startsWith('http')
StartsWithHttp(url) == Len(url) >= 1 /\ url[1] = "http"

\* baseUrl.replace(/\/$/, ''): one trailing slash is removed.
WithoutTrailingSlash(b) ==
  IF Len(b) >= 1 /\ b[Len(b)] = "/" THEN SubSeq(b, 1, Len(b) - 1) ELSE b

\* url.replace(/^\//, ''): one leading slash is removed.
WithoutLeadingSlash(u) ==
  IF Len(u) >= 1 /\ u[1] = "/" THEN Tail(u) ELSE u

\* methods.ts:36-41, on the text of the URLs.
ResolveUrlText(baseUrl, url) ==
  IF baseUrl # <<>> /\ ~StartsWithHttp(url)
    THEN WithoutTrailingSlash(baseUrl) \o <<"/">>
           \o WithoutLeadingSlash(url)
    ELSE url

\* resolveUrl is applied to a URL under some configured base URL.
ResolveUrlCall ==
  /\ applied = NoApplication
  /\ \E b \in BaseUrls, u \in RequestUrls :
       applied' = Applied("resolveUrl", [baseUrl |-> b, url |-> u],
                          ResolveUrlText(b, u))
  /\ UNCHANGED programVars

NextBaseUrl == ResolveUrlCall

SpecBaseUrl == Init /\ [][NextBaseUrl]_vars

(***************************************************************************)
(* The four validation sites on their own, each given any answer of its    *)
(* schema.                                                                 *)
(***************************************************************************)

\* What a validation site was given: the answer r of the schema, and for a
\* callback the slot, what the handler did and the handler's input.
Validation(r, slot, hb, input) ==
  [result |-> r, slot |-> slot, handler |-> hb, input |-> input]

\* methods.ts:144-156: the input schema answers r.
InputValidationCall ==
  /\ applied = NoApplication
  /\ \E r \in SchemaResults :
       applied' = Applied("input", Validation(r, "-", "-", NoVal),
                          InputValidation(r))
  /\ UNCHANGED programVars

\* methods.ts:178-180, 521-548: a JSON success body, the success schema
\* answers r.
SuccessBodyCall ==
  /\ applied = NoApplication
  /\ \E r \in SchemaResults :
       applied' = Applied("successBody", Validation(r, "-", "-", NoVal),
                          Json(Resp(200, TRUE), TRUE, r, "successBody"))
  /\ UNCHANGED programVars

\* core.ts:48-75: a JSON body under a non-success status, the error schema
\* answers r.
ErrorBodyCall ==
  /\ applied = NoApplication
  /\ \E r \in SchemaResults :
       applied' =
         Applied("errorBody", Validation(r, "-", "-", NoVal),
                 FetchWithRetry([rejects |-> "none", resp |-> Resp(500, TRUE)],
                                r, Undefined, TRUE, 1))
  /\ UNCHANGED programVars

\* callback-validator.ts:25-44: a schema-paired handler returns and its
\* schema answers r.
CallbackResultCall ==
  /\ applied = NoApplication
  /\ \E r \in SchemaResults, slot \in Slots, input \in CallbackInputs,
        hb \in HandlerBehaviours \ {"throws"} :
       applied' = Applied("callback", Validation(r, slot, hb, input),
                          ExecuteCallback("schema", slot, input, hb, r))
  /\ UNCHANGED programVars

(***************************************************************************)
(* The resolution of the retry policy on its own: methods.ts:172 and       *)
(* part_005:62, with policies that leave fields out.                       *)
(***************************************************************************)

\* The fields of RetryOptions that steer withRetry.
RetryFields == {"attempts", "backoff", "initialDelay", "maxDelay", "retryOn"}

\* part_005:7-14
DefaultRetryOptions ==
  [attempts |-> 3, backoff |-> "exponential", initialDelay |-> 1000,
   maxDelay |-> 10000, retryOn |-> {408, 429, 500, 502, 503, 504}]

\* Policies with every field given, none of them with its default value.
FullPolicies ==
  [attempts : {1, 2}, backoff : {"linear"}, initialDelay : {100},
   maxDelay : {500}, retryOn : {{500}}]

\* A retry option: undefined, or an object with some of the fields.
GivenPolicy(fields) == [given |-> TRUE, fields |-> fields]

NoPolicy == [given |-> FALSE, fields |-> <<>>]

PolicyOptions ==
  {NoPolicy}
    \cup {GivenPolicy([k \in d |-> p[k]]) :
            p \in FullPolicies, d \in SUBSET RetryFields}

\* A resolution that fills the fields the call leaves out from the global
\* policy.
ChosenRetryMerged(call, global) ==
  IF call.given /\ global.given
    THEN GivenPolicy(call.fields @@ global.fields)
  ELSE IF call.given THEN call ELSE global

\* methods.ts:172: options.retry || globalConfig.retry
ChosenRetry(call, global) == IF call.given THEN call ELSE global

\* part_005:62: { ...DEFAULT_RETRY_OPTIONS, ...retryOptions }
WithDefaults(policy) == GivenPolicy(policy.fields @@ DefaultRetryOptions)

\* methods.ts:172, core.ts:109-111, part_005:62: the options withRetry
\* runs with, or NoPolicy when withRetry is not entered.
EffectiveRetry(call, global) ==
  LET chosen == ChosenRetry(call, global)
  IN  IF chosen.given THEN WithDefaults(chosen) ELSE NoPolicy

\* A call resolves its retry policy.
ResolveRetryCall ==
  /\ applied = NoApplication
  /\ \E c \in PolicyOptions, g \in PolicyOptions :
       applied' = Applied("resolveRetry", [call |-> c, global |-> g],
                          EffectiveRetry(c, g))
  /\ UNCHANGED programVars

NextPolicy == ResolveRetryCall

SpecPolicy == Init /\ [][NextPolicy]_vars

NextValidation ==
  \/ InputValidationCall
  \/ SuccessBodyCall
  \/ ErrorBodyCall
  \/ CallbackResultCall

SpecValidation == Init /\ [][NextValidation]_vars

(***************************************************************************)
(* Properties                                                              *)
(***************************************************************************)

\* Some handler invoked in this call threw.
HandlerThrew == \E i \in 1..Len(invoked) : invoked[i].ended = "threw"

\* The slot named after an error kind.
SlotOf(kind) ==
  CASE kind = "ValidationError" -> "onValidationError"
    [] kind = "HttpError" -> "onHttpError"
    [] kind = "NetworkError" -> "onNetworkError"
    [] kind = "TimeoutError" -> "onTimeout"
    [] OTHER -> "onError"

\* The call settled the way the recorded handler run `entry` ended: with
\* the handler's result (the paired schema's output, or the handler's input
\* when a plain handler returned undefined), or with what the run threw.
SettledBy(entry) ==
  CASE entry.ended = "returned" ->
         outcome = Resolved(
           IF entry.shape = "schema"
             THEN Val("callbackValidated", entry.slot, NoErr)
           ELSE IF entry.handler # "undefined"
             THEN HandlerResult(entry.handler, entry.slot)
           ELSE entry.input)
    [] entry.ended = "resultInvalid" ->
         outcome.type = "rejected" /\ IsCallbackResultError(outcome.error)
    [] OTHER ->
         outcome.type = "rejected" /\ outcome.error.site = "handler"

\* An error withRetry may retry, in the words of the retry policy.
Eligible(e, policy) ==
  \/ e.kind = "NetworkError"
  \/ e.kind = "HttpError" /\ e.status \in policy.retryOn

\* C1: when the input schema reports issues, the call is over without a
\* single fetch and rejected with the ValidationError "Input validation
\* failed ...", whatever callback slots are registered.
C1_InputGate ==
  inputIssues =>
    /\ pc = "done"
    /\ exchanges = 0
    /\ outcome.type = "rejected"
    /\ outcome.error.kind = "ValidationError"
    /\ outcome.error.msg = "Input validation failed"

C1_Witness ==
  /\ inputIssues
  /\ pc = "done"
  /\ callbacks["onError"]
  /\ callbacks["onValidationError"]

\* C2: once the result of a schema-paired handler has failed its schema, no
\* further slot handler is invoked and the call ends rejected with the
\* "Callback result validation failed" ValidationError.
C2_CallbackResultTerminal ==
  \A i \in 1..Len(invoked) :
    invoked[i].ended = "resultInvalid" =>
      /\ i = Len(invoked)
      /\ (pc = "done" =>
            outcome.type = "rejected" /\ IsCallbackResultError(outcome.error))

\* The error kinds C3 speaks of.
RoutedKinds ==
  {"ValidationError", "HttpError", "NetworkError", "TimeoutError"}

\* The slot matching the kind of e is registered.
SpecificRegistered(e, cb) == e.kind \in RoutedKinds /\ cb[SlotOf(e.kind)]

\* onError alone was invoked, with the raised error, and settled the call.
OnErrorHandled ==
  /\ Len(invoked) = 1
  /\ invoked[1].slot = "onError"
  /\ invoked[1].input = Val("error", "-", raised)
  /\ SettledBy(invoked[1])

\* C3 as claimed: every error raised during the call, the input
\* ValidationError included, whose own slot is not registered goes to a
\* registered onError, and only the callback-result ValidationError escapes
\* a registered onError.
C3_FallbackIncludingInput ==
  (pc = "done" /\ callbacks["onError"]) =>
    /\ (raised.kind \in RoutedKinds /\ ~SpecificRegistered(raised, callbacks))
         => OnErrorHandled
    /\ (outcome.type = "rejected" /\ ~HandlerThrew)
         => IsCallbackResultError(outcome.error)

\* C3, amended: every error raised by dispatch or by success-body parsing
\* whose own slot is not registered goes to a registered onError, whose
\* handler alone is invoked, with that error, and settles the call; the
\* errors that escape a registered onError are the callback-result
\* ValidationError and the ValidationError of input validation.
C3_GenericFallback ==
  (pc = "done" /\ callbacks["onError"]) =>
    /\ (/\ raised.kind \in RoutedKinds
        /\ raised.site # "input"
        /\ ~SpecificRegistered(raised, callbacks))
         => OnErrorHandled
    /\ (outcome.type = "rejected" /\ ~HandlerThrew)
         => \/ IsCallbackResultError(outcome.error)
            \/ outcome.error = ValidationError("input",
                                               "Input validation failed")
            \/ outcome.error = ValidationError("input",
                                               "Unknown input validation error")

C3_Witness ==
  /\ pc = "done"
  /\ callbacks["onError"]
  /\ ~callbacks["onHttpError"]
  /\ raised.kind = "HttpError"
  /\ outcome = Resolved(Val("handlerResult", "onError", NoErr))

\* C4: an HttpError, NetworkError or TimeoutError raised by dispatch whose
\* own slot is registered is handed to that slot alone, once; its handler's
\* result settles the call and onError is not invoked.
C4_SpecificSlotRouting ==
  (/\ pc = "done"
   /\ raised.kind \in {"HttpError", "NetworkError", "TimeoutError"}
   /\ callbacks[SlotOf(raised.kind)]) =>
    /\ Len(invoked) = 1
    /\ invoked[1].slot = SlotOf(raised.kind)
    /\ invoked[1].input.err = raised
    /\ SettledBy(invoked[1])

C4_Witness ==
  /\ pc = "done"
  /\ raised.kind = "TimeoutError"
  /\ callbacks["onTimeout"]
  /\ callbacks["onError"]
  /\ outcome = Resolved(Val("handlerResult", "onTimeout", NoErr))

\* C5: withRetry returns after k retry-eligible failures and one success
\* with exactly k+1 exchanges, onRetry invoked for attempts 1..k in order
\* with the error of each, and the success value as its result; an
\* eligible failure ends the sequence only in the last attempt.
C5_RetryDeterminism ==
  /\ rpc = "returned" =>
       /\ exchanges = Len(retryLog) + 1
       /\ exchanges <= retry.attempts
       /\ \A i \in 1..Len(retryLog) : retryLog[i] = <<i, i>>
       /\ result = Returned(Resp(200, TRUE))
  /\ (rpc = "threw" /\ Eligible(result.err, retry)) =>
       attempt = retry.attempts

C5_Witness ==
  /\ rpc = "returned"
  /\ retry.attempts = 3
  /\ retryLog = <<<<1, 1>>, <<2, 2>>>>
  /\ exchanges = 3

\* C6: under a policy with attempts >= 2, the attempt that fails with a
\* TimeoutError or a ValidationError is the last exchange: withRetry throws
\* that very error without invoking onRetry for it, so that a first
\* attempt failing this way leaves one exchange and no onRetry invocation.
C6_NonRetryableShortCircuit ==
  (retry.attempts >= 2
   /\ lastError.kind \in {"TimeoutError", "ValidationError"}) =>
    /\ rpc = "threw"
    /\ result.err = lastError
    /\ exchanges = lastError.n
    /\ Len(retryLog) = exchanges - 1
    /\ (lastError.n = 1 => exchanges = 1 /\ retryLog = <<>>)

C6_Witness ==
  /\ rpc = "threw"
  /\ retry.attempts >= 2
  /\ lastError.kind = "ValidationError"
  /\ exchanges = 1

C8_RetryExhaustedRaised ==
  (/\ pc = "dispatching"
   /\ rpc = "threw"
   /\ retry # NoRetry
   /\ retry.attempts >= 1
   /\ exchanges = retry.attempts) =>
    result.err.kind = "RetryExhaustedError"

\* C9: when no handler throws, a settled call has resolved or is rejected
\* with an error of one of the five kinds of errors.ts.
C9_ExitValues ==
  (pc = "done" /\ ~HandlerThrew) =>
    \/ outcome.type = "resolved"
    \/ outcome.error.kind \in ErrorKinds

\* C10: with no callback slot registered, an error raised by dispatch or by
\* success-body parsing is what the call rejects with, the same object.
C10_UnchangedPropagation ==
  (/\ pc = "done"
   /\ \A s \in Slots : ~callbacks[s]
   /\ raised # NoErr
   /\ raised.site # "input") =>
    outcome = Rejected(raised)

C10_Witness ==
  /\ pc = "done"
  /\ \A s \in Slots : ~callbacks[s]
  /\ raised.kind = "HttpError"
  /\ raised.data = "validated"
  /\ outcome = Rejected(raised)

\* The latest exchange was a response with a non-success status.
NonSuccessResponse ==
  /\ fetched.rejects = "none"
  /\ (fetched.resp.status < 200 \/ fetched.resp.status > 299)

\* onHttpError was the first handler invoked, with `input`.
OnHttpErrorReceived(input) ==
  /\ Len(invoked) >= 1
  /\ invoked[1].slot = "onHttpError"
  /\ invoked[1].input.tag = input
  /\ invoked[1].input.err.kind = "HttpError"
  /\ invoked[1].input.err.status = fetched.resp.status

\* C11: when dispatch ended with a non-success response and onHttpError is
\* registered, its handler receives the validated body exactly when an
\* error schema was supplied and accepted the body, and the raw response
\* with the status of the exchange in every other case.
C11_ErrorSchemaFallback ==
  (/\ pc = "done"
   /\ callbacks["onHttpError"]
   /\ NonSuccessResponse) =>
    IF fetched.answer = "accepted"
      THEN OnHttpErrorReceived("errorData")
      ELSE OnHttpErrorReceived("response")

\* C12: executeCallback with a plain handler returns what the handler
\* returned when that is not undefined, a returned null as null, and returns
\* its input unchanged when the handler returned undefined or when no
\* callback was given.
C12_CallbackPassThrough ==
  (pc = "done" /\ invoked[1].handler # "throws") =>
    LET e == invoked[1]
    IN  /\ e.shape = "none" => outcome = Resolved(e.input)
        /\ (e.shape = "plain" /\ e.handler = "defined") =>
             outcome = Resolved(Val("handlerResult", e.slot, NoErr))
        /\ (e.shape = "plain" /\ e.handler = "null") =>
             outcome = Resolved(Val("null", "-", NoErr))
        /\ (e.shape = "plain" /\ e.handler = "undefined") =>
             outcome = Resolved(e.input)

C12_Witness ==
  /\ pc = "done"
  /\ invoked[1].shape = "plain"
  /\ invoked[1].handler = "null"
  /\ invoked[1].input = Val("parsed", "-", NoErr)
  /\ outcome = Resolved(Val("null", "-", NoErr))

\* The latest exchange of the dispatch has settled.
ExchangeSettled ==
  pc = "dispatching" /\ rpc \in {"returned", "threw", "sleeping"}

\* C13: when a timeout is in force and fetch rejects because its deadline
\* fired, the attempt fails with a TimeoutError whose timeout field is the
\* duration in force, not with a NetworkError, and the dispatch throws that
\* error.
C13_TimeoutError ==
  (/\ ExchangeSettled
   /\ Truthy(timeout)
   /\ fetched.rejects \in {"TimeoutError", "AbortError"}) =>
    /\ raised.kind = "TimeoutError"
    /\ raised.timeout = timeout
    /\ raised.n = exchanges
    /\ rpc = "threw"
    /\ result.err = raised

C13_Witness ==
  /\ ExchangeSettled
  /\ options.timeout = Undefined
  /\ timeout = 100
  /\ fetched.rejects = "TimeoutError"
  /\ raised = TimeoutError(1, 100)

\* Everything a call reads and writes other than the global configuration.
callState ==
  <<pc, callbacks, body, validatedBody, inputIssues, options, request, sent,
    retry, timeout, errorSchema, rpc, attempt, lastError, result, exchanges,
    retryLog, events, raised, fetched, response, data, thrown, invoked,
    outcome>>

\* The step in which the call resolves its options and enters the dispatch.
DispatchStep == pc = "dispatching" /\ rpc = "none" /\ rpc' # "none"

\* C14: a call that carries a per-request timeout value dispatches with that
\* value as the deadline of its exchanges and a call that carries none with
\* the global default; no step of a call changes the global configuration.
C14_TimeoutPrecedence ==
  [][/\ DispatchStep =>
          Deadline(timeout') =
            IF options'.timeout # Undefined THEN Deadline(options'.timeout)
            ELSE Deadline(globalConfig.timeout)
     /\ callState' # callState => globalConfig' = globalConfig]_vars

\* The step in which the call reads the base URL.
CallStep == pc = "idle" /\ pc' # "idle"

\* C15: the stored configuration is the argument of the latest configure()
\* call, and whenever a call resolves its base URL, default headers, retry
\* policy or timeout, what it takes from the global configuration is what
\* that argument holds: a field the argument leaves out is absent, whatever
\* earlier configure() calls had set.
C15_ConfigureReplaces ==
  [][/\ globalConfig' = configured'
     /\ CallStep =>
          request'.url.base =
            IF request'.url.absolute THEN "" ELSE configured.baseUrl
     /\ DispatchStep =>
          /\ \A k \in HeaderKeys :
               /\ request'.headers[k] = "global" =>
                    configured.headers[k] = "global"
               /\ request'.headers[k] = "absent" =>
                    configured.headers[k] = "absent"
          /\ options'.retry = NoRetry => retry' = configured.retry
          /\ options'.timeout = Undefined => timeout' = configured.timeout
    ]_vars

C15_Witness ==
  /\ pc = "dispatching"
  /\ rpc = "attempt"
  /\ request.url.base = "https://api"
  /\ configured = [EmptyConfig EXCEPT !.timeout = 100]
  /\ options.timeout = Undefined
  /\ timeout = 100
  /\ retry = NoRetry
  /\ request.headers["X-Trace"] = "absent"

\* The steps of a call in the order of methods.ts:128-224.
Rank(p) ==
  CASE p = "idle" -> 0
    [] p = "validatingInput" -> 1
    [] p = "dispatching" -> 2
    [] p = "parsing" -> 3
    [] p \in {"onSuccess", "innerCatch", "outerCatch"} -> 4
    [] OTHER -> 5

\* C16: a call never goes back to an earlier step; an exchange starts only
\* in the dispatch step, hence after input validation has finished and
\* never after parsing began; the success body is parsed only when the last
\* exchange returned a response with a success status; a slot handler is
\* invoked only after the dispatch has finished.
C16_StepOrdering ==
  [][/\ Rank(pc') >= Rank(pc)
     /\ exchanges' # exchanges => pc = "dispatching" /\ pc' = "dispatching"
     /\ (pc' = "parsing" /\ pc # "parsing") =>
          /\ exchanges >= 1
          /\ fetched.rejects = "none"
          /\ fetched.resp.status >= 200 /\ fetched.resp.status <= 299
          /\ response' = fetched.resp
     /\ invoked' # invoked => Rank(pc) = 4
    ]_vars

C16_Witness ==
  /\ pc = "done"
  /\ exchanges = 2
  /\ retryLog = <<<<1, 1>>>>
  /\ fetched.resp.status = 200
  /\ Len(invoked) = 1
  /\ invoked[1].slot = "onSuccess"
  /\ outcome.type = "resolved"

\* The exchanges started and not yet settled after the first i events.
InFlight(i) ==
  Cardinality({j \in 1..i : events[j][1] = "start"})
  - Cardinality({j \in 1..i : events[j][1] \in {"returned", "failed"}})

\* C17: at most one exchange of a call is in flight at any time; attempt
\* n+1 starts only after, in this order, attempt n failed, onRetry was
\* invoked for attempt n with the error of that failure, the delay of
\* attempt n was started, and that delay elapsed.
C17_SequentialRetries ==
  /\ \A i \in 0..Len(events) : InFlight(i) \in {0, 1}
  /\ rpc = "inFlight" <=> InFlight(Len(events)) = 1
  /\ \A i \in 1..Len(events) :
       LET n == events[i][2]
       IN  /\ (events[i][1] = "start" /\ n = 1) => i = 1
           /\ (events[i][1] = "start" /\ n > 1) =>
                /\ i = 5 * (n - 1) + 1
                /\ events[i - 5] = <<"start", n - 1>>
                /\ events[i - 4] = <<"failed", n - 1>>
                /\ events[i - 3] = <<"onRetry", n - 1>>
                /\ events[i - 2] = <<"delay", n - 1>>
                /\ events[i - 1] = <<"elapsed", n - 1>>
                /\ retryLog[n - 1] = <<n - 1, n - 1>>
           /\ events[i][1] = "delay" =>
                i > 1 /\ events[i - 1] = <<"onRetry", n>>

C17_Witness ==
  /\ pc = "dispatching"
  /\ rpc = "inFlight"
  /\ attempt = 2
  /\ exchanges = 2
  /\ events = <<<<"start", 1>>, <<"failed", 1>>, <<"onRetry", 1>>,
                <<"delay", 1>>, <<"elapsed", 1>>, <<"start", 2>>>>

\* The running call was set aside and the other call resumed.
SwitchStep == other' # other

\* C18: with two calls in flight and no configure() call, in every
\* interleaving of their steps a step of one call changes neither the state
\* of the other call nor the global configuration, a suspended call resumes
\* in exactly the state it was suspended in, and the headers, retry policy
\* and timeout a call dispatches with and the request each of its exchanges
\* sends are determined by its own options and the configuration.
C18_IndependentCalls ==
  [][/\ globalConfig' = globalConfig
     /\ globalConfig = configured
     /\ SwitchStep => (other' = Snapshot /\ Snapshot' = other)
     /\ ~SwitchStep /\ DispatchStep =>
          /\ request'.headers =
               Spread(configured.headers,
                      PerCallHeaders(validatedBody, options'))
          /\ retry' = ResolveRetry(options', configured)
          /\ timeout' = ResolveTimeout(options', configured)
     /\ ~SwitchStep /\ exchanges' # exchanges =>
          sent' = request /\ exchanges' = exchanges + 1
    ]_vars

C18_Witness ==
  /\ rpc = "inFlight"
  /\ other.rpc = "inFlight"
  /\ exchanges = 2
  /\ other.exchanges = 1
  /\ request.headers["X-Trace"] = "absent"
  /\ other.request.headers["X-Trace"] = "custom"
  /\ callbacks # other.callbacks

\* C19: when input validation succeeded, the payload of every exchange of
\* the call is the serialisation of the value the schema returned, not of
\* the body the caller passed.
C19_ValidatedBodySent ==
  (pc = "dispatching" /\ validatedBody = "validated" /\ exchanges >= 1) =>
    /\ sent.body = "jsonOfValidated"
    /\ sent.body # PrepareBody(body).body

C19_Witness ==
  /\ pc = "dispatching"
  /\ rpc = "inFlight"
  /\ body = "object"
  /\ validatedBody = "validated"
  /\ ~inputIssues
  /\ exchanges = 2
  /\ sent.body = "jsonOfValidated"

\* The value the precedence order gives key k: the custom header of the
\* call, else the auth shorthand, else the Content-Type derived from the
\* body, else the global default.
Precedence(k, o, b, cfg) ==
  IF o.headers[k] # "absent" THEN o.headers[k]
  ELSE IF o.auth /\ k = "Authorization" THEN "auth"
  ELSE IF k = "Content-Type" /\ b \notin {"undefined", "null", "string"}
    THEN "body"
  ELSE cfg.headers[k]

\* C20: for each header key, the value the call dispatches with is the one
\* of the highest-precedence source that defines it (custom headers, auth
\* shorthand, body-derived Content-Type, global defaults), so a key some
\* source defines is always sent.
C20_HeaderPrecedence ==
  [][DispatchStep =>
       \A k \in HeaderKeys :
         request'.headers[k] =
           Precedence(k, options', validatedBody, globalConfig)]_vars

\* The bytes a base64 text stands for.
RECURSIVE Atob(_)
Atob(q) ==
  IF Len(q) < 4 THEN <<>>
  ELSE LET d(i) == IF q[i] = Pad THEN 0 ELSE q[i]
           v == d(1) * 262144 + d(2) * 4096 + d(3) * 64 + d(4)
           bytes == <<v \div 65536, (v \div 256) % 256, v % 256>>
           pads == Cardinality({i \in 3..4 : q[i] = Pad})
       IN  SubSeq(bytes, 1, 3 - pads) \o Atob(SubSeq(q, 5, Len(q)))

\* C21: the auth shorthand yields 'Bearer <token>' when bearer is set, else
\* 'ApiKey <key>' when apiKey is set, else 'Basic' followed by the base64
\* of username:password when basic is set, and no Authorization header when
\* none is set.
C21_AuthShorthand ==
  applied.fn = "prepareAuthHeaders" =>
    LET a == applied.input
        h == applied.output
    IN  /\ ~h.threw
        /\ IF TruthyText(a.bearer)
             THEN h.scheme = "Bearer" /\ h.payload = a.bearer.chars
           ELSE IF TruthyText(a.apiKey)
             THEN h.scheme = "ApiKey" /\ h.payload = a.apiKey.chars
           ELSE IF a.basic.defined
             THEN /\ h.scheme = "Basic"
                  /\ Atob(h.payload) =
                       a.basic.username \o <<Colon>> \o a.basic.password
           ELSE h.scheme = "none"

\* The entries of a query that are neither null nor undefined.
Kept(es) == SelectSeq(es, LAMBDA e : e.value \notin {"null", "undefined"})

\* url followed, when kept is not empty, by '?' or '&' and one key=value
\* pair for each entry of kept, in that order.
WithPairs(out, url, kept) ==
  LET n == Len(kept)
      at == Len(url)
  IN  /\ Len(out) = at + 4 * n
      /\ SubSeq(out, 1, at) = url
      /\ \A i \in 1..n :
           /\ out[at + 4 * i - 3] =
                (IF i > 1 \/ Includes(url, "?") THEN "&" ELSE "?")
           /\ out[at + 4 * i - 2] = kept[i].key
           /\ out[at + 4 * i - 1] = "="
           /\ out[at + 4 * i] = StringOf(kept[i].value)

IsAbsolute(url) == Len(url) >= 2 /\ url[1] = "http" /\ url[2] = ":"

\* The text without the slashes it ends with.
RECURSIVE TrimEnd(_)
TrimEnd(t) ==
  IF Len(t) >= 1 /\ t[Len(t)] = "/" THEN TrimEnd(SubSeq(t, 1, Len(t) - 1))
  ELSE t

\* The text without the slashes it begins with.
RECURSIVE TrimStart(_)
TrimStart(t) ==
  IF Len(t) >= 1 /\ t[1] = "/" THEN TrimStart(Tail(t)) ELSE t

\* C23: under a configured base URL, a request URL that is not absolute is
\* sent as the base URL and the path with exactly one slash between them,
\* and an absolute request URL is sent unchanged.
C23_BaseUrlResolution ==
  (applied.fn = "resolveUrl" /\ applied.input.baseUrl # <<>>) =>
    applied.output =
      IF IsAbsolute(applied.input.url) THEN applied.input.url
      ELSE TrimEnd(applied.input.baseUrl) \o <<"/">>
             \o TrimStart(applied.input.url)

\* C24: a NetworkError is raised only when fetch itself failed for a reason
\* other than the timeout; an exchange that completed with a response,
\* whatever its status and its body, never produces one.
C24_NetworkErrorOnlyFromFetch ==
  raised.kind = "NetworkError" =>
    /\ fetched.rejects \in {"TypeError", "AbortError"}
    /\ fetched.resp = NoResp

\* An attempt made under a policy with attempts remaining has failed.
FailsWithAttemptsLeft ==
  /\ rpc = "inFlight"
  /\ rpc' \in {"sleeping", "threw"}
  /\ retry # NoRetry
  /\ attempt < retry.attempts

\* C25: under a retry policy with attempts remaining, a failed attempt is
\* followed by onRetry, the delay and another attempt exactly when its
\* error is a NetworkError or an HttpError whose status is in retryOn; an
\* HttpError whose status is outside retryOn is thrown by withRetry right
\* after that attempt, with no onRetry invocation and no delay.
C25_RetryEligibility ==
  [][/\ FailsWithAttemptsLeft =>
          /\ (rpc' = "sleeping") <=> Eligible(raised', retry)
          /\ rpc' = "sleeping" =>
               /\ retryLog' = Append(retryLog, <<attempt, raised'.n>>)
               /\ events' = events \o <<<<"failed", exchanges>>,
                                        <<"onRetry", attempt>>,
                                        <<"delay", attempt>>>>
          /\ (raised'.kind = "HttpError"
              /\ raised'.status \notin retry.retryOn) =>
               /\ rpc' = "threw"
               /\ result' = Threw(raised')
               /\ retryLog' = retryLog
               /\ events' = Append(events, <<"failed", exchanges>>)
     /\ (rpc = "sleeping" /\ rpc' # "sleeping") =>
          rpc' = "attempt" /\ attempt' = attempt + 1
    ]_vars

C25_Witness ==
  /\ rpc = "threw"
  /\ retry.attempts >= 2
  /\ attempt = 2
  /\ attempt < retry.attempts
  /\ raised.kind = "HttpError"
  /\ raised.status \notin retry.retryOn
  /\ retryLog = <<<<1, 1>>>>
  /\ exchanges = 2

\* The success body failed the success schema.
SuccessBodyRefused ==
  raised.kind = "ValidationError" /\ raised.site = "successBody"

\* C26: when the success body fails the success schema, onSuccess is not
\* invoked; a registered onValidationError is the first handler invoked,
\* with that ValidationError, and what it returns is the result of the
\* call; when it is not registered, the same ValidationError leaves the
\* parsing step and, with no onError either, rejects the call.
C26_SuccessBodyRefused ==
  SuccessBodyRefused =>
    /\ \A i \in 1..Len(invoked) : invoked[i].slot # "onSuccess"
    /\ (callbacks["onValidationError"] /\ pc # "innerCatch") =>
         /\ Len(invoked) >= 1
         /\ invoked[1].slot = "onValidationError"
         /\ invoked[1].input = Val("error", "-", raised)
         /\ invoked[1].ended = "returned" =>
              /\ pc = "done"
              /\ Len(invoked) = 1
              /\ SettledBy(invoked[1])
    /\ ~callbacks["onValidationError"] =>
         /\ pc \in {"innerCatch", "outerCatch"} =>
              thrown = raised /\ invoked = <<>>
         /\ (pc = "done" /\ ~callbacks["onError"]) =>
              outcome = Rejected(raised) /\ invoked = <<>>

C26_Witness ==
  /\ SuccessBodyRefused
  /\ pc = "done"
  /\ callbacks["onValidationError"]
  /\ callbacks["onSuccess"]
  /\ callbacks["onError"]
  /\ raised.msg = "Response validation failed"
  /\ Len(invoked) = 1
  /\ outcome = Resolved(Val("handlerResult", "onValidationError", NoErr))

\* The call is over and its dispatch ended with an HttpError.
EndedWithHttpError == pc = "done" /\ raised.kind = "HttpError"

\* onHttpError alone was invoked, with the validated error data or the
\* response of that HttpError, and settled the call.
OnHttpErrorHandled ==
  /\ Len(invoked) = 1
  /\ invoked[1].slot = "onHttpError"
  /\ invoked[1].input = CallbackInput("onHttpError", raised)
  /\ SettledBy(invoked[1])

\* C27 as stated: an HttpError goes to onHttpError when that slot is
\* registered; when it is not, the HttpError rejects the call and onError
\* is not invoked, even when it is registered.
C27_HttpErrorNeverToOnError ==
  EndedWithHttpError =>
    IF callbacks["onHttpError"] THEN OnHttpErrorHandled
    ELSE outcome = Rejected(raised) /\ invoked = <<>>

\* C27, amended: an HttpError goes to onHttpError when that slot is
\* registered; when it is not, it goes to onError when that is registered,
\* and rejects the call, no handler being invoked, when neither is.
C27_HttpErrorRouting ==
  EndedWithHttpError =>
    IF callbacks["onHttpError"] THEN OnHttpErrorHandled
    ELSE IF callbacks["onError"] THEN OnErrorHandled
    ELSE outcome = Rejected(raised) /\ invoked = <<>>

C27_Witness ==
  /\ EndedWithHttpError
  /\ ~callbacks["onHttpError"]
  /\ callbacks["onError"]
  /\ raised.status = 404
  /\ invoked[1].slot = "onError"
  /\ invoked[1].handler = "undefined"
  /\ outcome = Resolved(Val("error", "-", raised))

\* The four validation sites.
ValidationSites == {"input", "successBody", "errorBody", "callback"}

\* A Success outcome: the schema returned a value, whatever it is, and no
\* issues. A Failure outcome: it returned issues.
SuccessOutcome(r) == r.value # "absent" /\ r.issues = "absent"

FailureOutcome(r) == r.issues = "present"

\* The site let the pipeline continue with the value of the schema.
Continued(site, slot, out) ==
  CASE site = "input" ->
         out = ReturnedValue(Val("inputValidated", "-", NoErr))
    [] site = "successBody" ->
         out = ReturnedValue(Val("validated", "-", NoErr))
    [] site = "errorBody" -> out = Threw(HttpError(1, 500, "validated"))
    [] OTHER -> out = ReturnedValue(Val("callbackValidated", slot, NoErr))

\* The site raised the generic unknown-validation-error ValidationError.
RaisedUnknown(out) ==
  /\ ~out.ok
  /\ out.err.kind = "ValidationError"
  /\ out.err.msg \in {"Unknown input validation error",
                      "Unknown validation error",
                      "Callback result validation failed: Unknown error"}

\* C28: at every validation site a Success outcome, whatever value the
\* schema returned, lets the pipeline continue with that value, no other
\* outcome does, and the generic unknown-validation-error ValidationError
\* is raised only for an outcome that is neither Success nor Failure.
C28_ValidationOutcomes ==
  applied.fn \in ValidationSites =>
    LET r == applied.input.result
        out == applied.output
    IN  /\ SuccessOutcome(r) <=>
             Continued(applied.fn, applied.input.slot, out)
        /\ RaisedUnknown(out) => ~SuccessOutcome(r) /\ ~FailureOutcome(r)

\* The policy `effective` has the fields of `own` and the built-in default
\* for every field `own` leaves out.
OwnFieldsElseDefaults(effective, own) ==
  /\ effective.given
  /\ DOMAIN effective.fields = RetryFields
  /\ \A k \in RetryFields :
       effective.fields[k] =
         IF k \in DOMAIN own.fields THEN own.fields[k]
         ELSE DefaultRetryOptions[k]

\* C29: a call that carries a retry policy runs with the fields of that
\* policy and the built-in defaults for the fields it omits, whatever the
\* global policy is; the global policy is used, completed the same way,
\* only when the call carries none; with neither there is no retry.
C29_RetryPolicyResolution ==
  applied.fn = "resolveRetry" =>
    LET call == applied.input.call
        global == applied.input.global
    IN  IF call.given THEN OwnFieldsElseDefaults(applied.output, call)
        ELSE IF global.given
          THEN OwnFieldsElseDefaults(applied.output, global)
        ELSE applied.output = NoPolicy

C29_Witness ==
  /\ applied.fn = "resolveRetry"
  /\ applied.input.call = GivenPolicy([k \in {"attempts"} |-> 2])
  /\ applied.input.global \in {GivenPolicy(p) : p \in FullPolicies}
  /\ applied.output.fields.attempts = 2
  /\ applied.output.fields.retryOn = {408, 429, 500, 502, 503, 504}
  /\ applied.output.fields.initialDelay = 1000

\* C30: the deadline of every attempt is the full timeout after the moment
\* that attempt called fetch, whatever time earlier attempts and delays
\* took, so that an attempt that timed out lasted exactly the timeout.
C30_TimeoutPerAttempt ==
  /\ (pc = "dispatching" /\ rpc = "inFlight" /\ Truthy(timeout)) =>
       /\ clock.deadline = clock.startedAt + timeout
       /\ clock.now <= clock.deadline
  /\ (/\ ExchangeSettled
      /\ Truthy(timeout)
      /\ fetched.rejects \in {"TimeoutError", "AbortError"}) =>
       /\ raised = TimeoutError(exchanges, timeout)
       /\ clock.now - clock.startedAt = timeout

C30_Witness ==
  /\ ExchangeSettled
  /\ exchanges = 2
  /\ retryLog = <<<<1, 1>>>>
  /\ timeout = 100
  /\ raised = TimeoutError(2, 100)
  /\ clock.startedAt = 150
  /\ clock.now = 250

\* C31: the delay after failed attempt n is initialDelay * 2^(n-1) for
\* exponential backoff and initialDelay * n for linear backoff, replaced by
\* maxDelay when larger, so it never exceeds maxDelay.
C31_BackoffDelay ==
  applied.fn = "calculateDelay" =>
    LET n == applied.input[1]
        policy == applied.input[2]
        grown == IF policy.backoff = "exponential"
                   THEN policy.initialDelay * 2 ^ (n - 1)
                   ELSE policy.initialDelay * n
    IN /\ applied.output <= policy.maxDelay
       /\ grown <= policy.maxDelay => applied.output = grown
       /\ grown > policy.maxDelay => applied.output = policy.maxDelay

C31_Witness ==
  /\ applied.fn = "calculateDelay"
  /\ applied.input[1] = 3
  /\ applied.input[2].backoff = "exponential"
  /\ applied.input[2].initialDelay = 100
  /\ applied.input[2].maxDelay = 500
  /\ applied.output = 400

\* C32: once a call has been dispatched, the base URL it was prefixed with,
\* its merged headers, its retry policy and its timeout are what one single
\* configuration yields for the call's URL and options.
C32_ConfigurationSnapshot ==
  (pc = "dispatching" /\ rpc # "none") =>
    \E cfg \in Configs :
      /\ request.url = ResolveUrl(cfg, [absolute |-> request.url.absolute])
      /\ request.headers =
           MergedHeaders(cfg, BodyToPrepare(body, validatedBody), options)
      /\ timeout = ResolveTimeout(options, cfg)
      /\ retry = ResolveRetry(options, cfg)

\* C33: in a single call at most one slot handler is invoked, whatever the
\* handler does and whatever its paired schema answers.
C33_AtMostOneHandler == Len(invoked) <= 1

\* C34: under a retry policy, an exchange that completed with a status
\* outside the policy's retryOn set is the last exchange of the call:
\* the retry loop ends with it instead of waiting for another attempt.
C34_NoRetryOutsideRetryOn ==
  (/\ ExchangeSettled
   /\ retry # NoRetry
   /\ fetched.rejects = "none"
   /\ fetched.resp.status \notin retry.retryOn) =>
    rpc \in {"returned", "threw"}

\* C35: the retry loop has issued at least one exchange before it throws,
\* for every attempts value of the policy, so that a call rejected after its
\* input was accepted has issued at least one exchange.
C35_AtLeastOneExchange ==
  /\ (pc = "dispatching" /\ rpc = "threw") => exchanges >= 1
  /\ (pc = "done" /\ outcome.type = "rejected" /\ outcome.error.site # "input")
       => exchanges >= 1

\* C36: a dispatched call never issues more exchanges than the attempts
\* value of the retry policy resolved for it, and a call dispatched without
\* a policy has issued exactly one exchange when its dispatch settles.
C36_ExchangeCountBounds ==
  /\ (pc = "dispatching" /\ retry # NoRetry) => exchanges <= retry.attempts
  /\ (pc = "dispatching" /\ rpc # "none" /\ retry = NoRetry) =>
       /\ exchanges <= 1
       /\ rpc \in {"returned", "threw"} => exchanges = 1

C36_Witness ==
  /\ pc = "dispatching"
  /\ rpc = "threw"
  /\ retry.attempts = 2
  /\ exchanges = 2
  /\ options.retry = retry

\* C37: an error handed to a registered plain handler that returns settles
\* the call as resolved, and no further handler runs; when the handler
\* returned undefined the call resolves with what the handler was given:
\* the error itself, or for onHttpError the validated error data when there
\* is some and the raw response otherwise.
C37_PlainErrorHandlerResolves ==
  \A i \in 1..Len(invoked) :
    LET e == invoked[i]
    IN  (/\ e.slot # "onSuccess"
         /\ e.shape = "plain"
         /\ e.handler # "throws") =>
          /\ i = Len(invoked)
          /\ pc = "done"
          /\ outcome.type = "resolved"
          /\ e.input.err.kind # "none"
          /\ i = 1 => e.input.err = raised
          /\ e.input.tag =
               IF e.slot # "onHttpError" THEN "error"
               ELSE IF e.input.err.data # "none" THEN "errorData"
               ELSE "response"
          /\ e.handler = "undefined" => outcome.value = e.input

C37_Witness ==
  /\ pc = "done"
  /\ Len(invoked) = 1
  /\ invoked[1].slot = "onHttpError"
  /\ invoked[1].shape = "plain"
  /\ invoked[1].handler = "undefined"
  /\ raised.kind = "HttpError"
  /\ outcome = Resolved(Val("response", "-", raised))

\* A step taken after the dispatch has returned or thrown does not lead
\* back to input validation or to the dispatch.
NoReentry ==
  pc \in {"parsing", "onSuccess", "innerCatch", "outerCatch", "done"} =>
    pc' \notin {"idle", "validatingInput", "dispatching"}

\* C38: every call that has started eventually settles, resolved or
\* rejected, when each of its steps eventually completes, and no routing
\* step re-enters input validation or the dispatch.
C38_Termination ==
  /\ (pc # "idle") ~> (pc = "done" /\ outcome.type # "pending")
  /\ [][NoReentry]_vars

C38_Witness ==
  /\ pc = "done"
  /\ exchanges = 2
  /\ Len(retryLog) = 1
  /\ Len(invoked) = 1
  /\ outcome.type = "resolved"

====
